---- MODULE Spec2Model ----
(***************************************************************************)
(* The spawn pipeline of the unshare crate: Command::spawn in the parent   *)
(* (src/src/run.rs), child_after_clone in the cloned child                 *)
(* (src/src/child.rs), the two pipes between them, and the descriptor      *)
(* tables of both processes.                                               *)
(***************************************************************************)
EXTENDS Integers, Sequences, FiniteSets, TLC

(* ------------------------------------------------------------------ *)
(* Bounds of the model                                                 *)
(* ------------------------------------------------------------------ *)

\* RLIMIT_NOFILE of the parent: descriptors are 0 .. RlimitNofile-1.
RlimitNofile == 12
\* How many non-default settings one Command of the general family carries.
MaxFeatures == 2
\* How many descriptors >= 3 one Command of the descriptor family configures.
MaxTargets == 2
\* How many times one blocking call of a spawn is interrupted (EINTR/EAGAIN).
MaxEintr == 1

(* ------------------------------------------------------------------ *)
(* Errno values and error codes                                        *)
(* ------------------------------------------------------------------ *)

EINTR == 4
EAGAIN == 11
ENOTSUP == 95
EMFILE == 24
EBADF == 9
\* errno values a failing child-side or parent-side system call reports
StepErrnos == {1, 2}
\* errno values of a failing read on the wake-up pipe
ReadErrnos == {EINTR, EAGAIN, 5, EBADF}

\* enum ErrorCode
CreatePipe == 1
Fork == 2
Exec == 3
Chdir == 4
ParentDeathSignal == 5
PipeError == 6
StdioError == 7
SetUser == 8
ChangeRoot == 9
SetIdMap == 10
SetPGid == 11
SetNs == 12
CapSet == 13
\* Err::PreExec is used by child_after_clone but enum ErrorCode has no such
\* variant; it is given the first discriminant after CapSet.
PreExec == 14
ErrorCodes == CreatePipe..CapSet

\* e.raw_os_error().unwrap_or(10873289)
NoOsErrorSentinel == 10873289

(* ------------------------------------------------------------------ *)
(* Descriptors and open files                                          *)
(* ------------------------------------------------------------------ *)

FDS == 0..(RlimitNofile - 1)
NoFile == <<"none", 0>>
Stdio == 0 :> <<"stdio", 0>> @@ 1 :> <<"stdio", 1>> @@ 2 :> <<"stdio", 2>>
WakeupR == <<"wakeup_r", 0>>
WakeupW == <<"wakeup_w", 0>>
ErrR == <<"err_r", 0>>
ErrW == <<"err_w", 0>>
UserFile(n) == <<"user", n>>

EmptyTable == [f \in FDS |-> NoFile]

\* The lowest descriptor >= min that is free in tbl, or -1 (EMFILE).
LowestFree(tbl, min) ==
    IF \E f \in FDS : f >= min /\ tbl[f] = NoFile
    THEN CHOOSE f \in FDS : /\ f >= min
                            /\ tbl[f] = NoFile
                            /\ \A g \in FDS : (g >= min /\ g < f) => tbl[g] # NoFile
    ELSE -1

\* pipe2(O_CLOEXEC): the two lowest free descriptors, read end first.
Pipe2(tbl, rdFile, wrFile) ==
    LET rd == LowestFree(tbl, 0)
        t1 == IF rd >= 0 THEN [tbl EXCEPT ![rd] = rdFile] ELSE tbl
        wr == IF rd >= 0 THEN LowestFree(t1, 0) ELSE -1
    IN  IF wr >= 0
        THEN [ok |-> TRUE, rd |-> rd, wr |-> wr, tbl |-> [t1 EXCEPT ![wr] = wrFile]]
        ELSE [ok |-> FALSE, rd |-> -1, wr |-> -1, tbl |-> tbl]

FdsOf(tbl, file) == {f \in FDS : tbl[f] = file}

(* ------------------------------------------------------------------ *)
(* Command configurations                                              *)
(* ------------------------------------------------------------------ *)

Inherit == <<"Inherit", 0>>
ReadPipe == <<"ReadPipe", 0>>
WritePipe == <<"WritePipe", 0>>
ReadNull == <<"ReadNull", 0>>
WriteNull == <<"WriteNull", 0>>
FdOf(x) == <<"Fd", x>>

\* Command::new / reset_fds: 0, 1 and 2 are inherited.
StdioFds == {<<0, Inherit>>, <<1, Inherit>>, <<2, Inherit>>}

\* The parent's descriptor table when spawn is called.
OpenTable(nUser) ==
    [f \in FDS |-> IF f < 3 THEN Stdio[f]
                   ELSE IF f < 3 + nUser THEN UserFile(f) ELSE NoFile]

DefaultCommand ==
    [ death_sig |-> TRUE, make_group_leader |-> FALSE,
      id_maps |-> FALSE, id_map_commands |-> FALSE,
      before_unfreeze |-> FALSE, pre_exec |-> FALSE,
      work_dir |-> FALSE, setns |-> FALSE, pid_env_vars |-> FALSE,
      pivot |-> "none", chroot |-> FALSE, keep_caps |-> FALSE,
      gid |-> FALSE, groups |-> FALSE, uid |-> FALSE,
      restore_sigmask |-> TRUE,
      fds |-> StdioFds, close_fds |-> <<>>, nopen |-> 0 ]

\* The builder calls a Command of the general family has received.
Features ==
    { "allow_daemonize", "make_group_leader", "set_id_maps",
      "set_id_map_commands", "before_unfreeze", "pre_exec", "current_dir",
      "set_namespace", "env_var_with_pid", "pivot_root", "pivot_root_unmount",
      "chroot_dir", "keep_caps", "gid", "groups", "uid", "keep_sigmask",
      "close_fds_all", "fd_read_pipe" }

RECURSIVE FeatureSets(_)
FeatureSets(k) ==
    IF k = 0 THEN {{}}
    ELSE LET prev == FeatureSets(k - 1)
         IN  prev \cup {s \cup {x} : s \in prev, x \in Features}

\* The Command after the builder calls named in S.
Build(S) ==
    [ death_sig |-> "allow_daemonize" \notin S,
      make_group_leader |-> "make_group_leader" \in S,
      id_maps |-> "set_id_maps" \in S,
      id_map_commands |-> "set_id_map_commands" \in S,
      before_unfreeze |-> "before_unfreeze" \in S,
      pre_exec |-> "pre_exec" \in S,
      work_dir |-> "current_dir" \in S,
      setns |-> "set_namespace" \in S,
      pid_env_vars |-> "env_var_with_pid" \in S,
      pivot |-> IF "pivot_root_unmount" \in S THEN "unmount"
                ELSE IF "pivot_root" \in S THEN "keep" ELSE "none",
      chroot |-> "chroot_dir" \in S,
      keep_caps |-> "keep_caps" \in S,
      gid |-> "gid" \in S, groups |-> "groups" \in S, uid |-> "uid" \in S,
      restore_sigmask |-> "keep_sigmask" \notin S,
      fds |-> IF "fd_read_pipe" \in S
              THEN StdioFds \cup {<<3, ReadPipe>>} ELSE StdioFds,
      close_fds |-> IF "close_fds_all" \in S
                    THEN << <<3, RlimitNofile>> >> ELSE <<>>,
      nopen |-> 0 ]

\* Commands that configure every step of one block of child_after_clone:
\* the privilege block, and the block from setns to the closing of ranges.
BlockFeatureSets ==
    (SUBSET {"keep_caps", "gid", "groups", "uid"})
        \cup (SUBSET {"set_namespace", "pivot_root", "chroot_dir", "current_dir",
                      "fd_read_pipe", "close_fds_all"})

GeneralCommands == {Build(S) : S \in FeatureSets(MaxFeatures) \cup BlockFeatureSets}

\* Descriptor family: what file_descriptor / close_fds can configure.
TargetFds == {3, 4, 6, 8}
Intents == {Inherit, ReadPipe, WritePipe, ReadNull, WriteNull, FdOf(3), FdOf(4)}
CloseRanges == { <<>>, << <<3, RlimitNofile>> >>, << <<5, 4>>, <<6, 9>> >> }

RECURSIVE FdMaps(_)
FdMaps(k) ==
    IF k = 0 THEN {StdioFds}
    ELSE LET prev == FdMaps(k - 1)
         IN  prev \cup UNION { {m \cup {<<t, i>>} :
                                    t \in {x \in TargetFds : \A e \in m : e[1] # x},
                                    i \in Intents} : m \in prev }

DescriptorCommands ==
    { [DefaultCommand EXCEPT !.fds = m, !.close_fds = r, !.nopen = n] :
        m \in FdMaps(MaxTargets), r \in CloseRanges, n \in {0, 2} }

Keys(fds) == {e[1] : e \in fds}
IntentOf(fds, t) == (CHOOSE e \in fds : e[1] = t)[2]

(* ------------------------------------------------------------------ *)
(* Descriptor planner: prepare_descriptors                             *)
(* ------------------------------------------------------------------ *)

ENFILE == 23

CloseAll(tbl, S) == [f \in FDS |-> IF f \in S THEN NoFile ELSE tbl[f]]

PlanStart(tbl) == [tbl |-> tbl, inner |-> {}, outer |-> {}, guards |-> {}, err |-> 0]

PlanFail(st, errno) == [st EXCEPT !.err = errno]

\* A planner that takes the source as it is.
NoAvoidClobber(st, fd, dest, keys) == [st EXCEPT !.inner = @ \cup {<<dest, fd>>}]

\* A planner whose guards are dropped as soon as the entry is planned.
RECURSIVE AvoidClobberDropsGuards(_, _, _, _)
AvoidClobberDropsGuards(st, fd, dest, keys) ==
    IF fd # dest /\ fd \in keys
    THEN IF st.tbl[fd] = NoFile THEN PlanFail(st, EBADF)
         ELSE LET nfd == LowestFree(st.tbl, 3)
              IN  IF nfd < 0 THEN PlanFail(st, EMFILE)
                  ELSE AvoidClobberDropsGuards([st EXCEPT !.tbl[nfd] = st.tbl[fd],
                                                          !.guards = @ \cup {nfd}],
                                               nfd, dest, keys)
    ELSE [st EXCEPT !.inner = @ \cup {<<dest, fd>>}, !.tbl = CloseAll(st.tbl, st.guards)]

\* The loop "while fd != dest_fd && fds.contains_key(&fd)": the source is
\* duplicated with F_DUPFD_CLOEXEC(3) until it is no target of the plan.
RECURSIVE AvoidClobber(_, _, _, _)
AvoidClobber(st, fd, dest, keys) ==
    IF fd # dest /\ fd \in keys
    THEN IF st.tbl[fd] = NoFile THEN PlanFail(st, EBADF)
         ELSE LET nfd == LowestFree(st.tbl, 3)
              IN  IF nfd < 0 THEN PlanFail(st, EMFILE)
                  ELSE AvoidClobber([st EXCEPT !.tbl[nfd] = st.tbl[fd],
                                               !.guards = @ \cup {nfd}],
                                    nfd, dest, keys)
    ELSE [st EXCEPT !.inner = @ \cup {<<dest, fd>>}]

\* One iteration of the loop over the intent map; envFail: the system call
\* that materialises the source fails for a reason outside the process.
PlanEntry(st, dest, intent, keys, envFail) ==
    CASE intent[1] \in {"ReadPipe", "WritePipe"} ->
            LET p == Pipe2(st.tbl, <<"pipe_r", dest>>, <<"pipe_w", dest>>)
                rdside == intent[1] = "ReadPipe"
                fd == IF rdside THEN p.rd ELSE p.wr
                holder == IF rdside THEN <<dest, "Writer", p.wr>>
                          ELSE <<dest, "Reader", p.rd>>
            IN  IF envFail THEN PlanFail(st, ENFILE)
                ELSE IF ~p.ok THEN PlanFail(st, EMFILE)
                ELSE AvoidClobber([st EXCEPT !.tbl = p.tbl,
                                             !.guards = @ \cup {fd},
                                             !.outer = @ \cup {holder}],
                                  fd, dest, keys)
      [] intent[1] \in {"ReadNull", "WriteNull"} ->
            LET fd == LowestFree(st.tbl, 0)
                file == IF intent[1] = "ReadNull" THEN <<"null_r", dest>>
                        ELSE <<"null_w", dest>>
            IN  IF envFail THEN PlanFail(st, ENFILE)
                ELSE IF fd < 0 THEN PlanFail(st, EMFILE)
                ELSE AvoidClobber([st EXCEPT !.tbl[fd] = file,
                                             !.guards = @ \cup {fd}],
                                  fd, dest, keys)
      [] intent[1] = "Inherit" -> AvoidClobber(st, dest, dest, keys)
      [] OTHER -> AvoidClobber(st, intent[2], dest, keys)

(* ------------------------------------------------------------------ *)
(* State                                                               *)
(* ------------------------------------------------------------------ *)

VARIABLES
    cmd,       \* the Command being spawned
    pfds,      \* descriptor table of the parent
    pipes,     \* descriptors of the wake-up and error pipes (parent locals)
    plan,      \* result of prepare_descriptors: inner, outer, guards
    ppc,       \* position of the parent in spawn_inner / after_start
    perr,      \* the error after_start returned
    result,    \* what spawn returned
    child,     \* the cloned process: none, running, execd, zombie, reaped
    cstatus,   \* how the child ended
    cpc,       \* position of the child in child_after_clone
    cfds,      \* descriptor table of the child
    ccloexec,  \* child descriptors with FD_CLOEXEC
    epipe,     \* the child's local epipe
    capplied,  \* targets of the plan the child has applied so far
    wbytes,    \* bytes in the wake-up pipe
    ebuf,      \* bytes in the error pipe
    stray,     \* bytes the child wrote to a descriptor that is not the error pipe
    cfail,     \* the code and errno the child passed to fail_errno
    clog,      \* system calls and callbacks the child performed, in order
    plog,      \* system calls and callbacks the parent performed, in order
    eintr,     \* interrupted calls so far
    handle,    \* the Child handle spawn returned: status, fds, stdin, stdout, stderr
    proc,      \* the process behind the handle's pid: state and wait status
    hcalls,    \* calls made on the handle: call, argument, return value, system calls
    builder,   \* the Command under construction
    osenv,     \* the calling process: its environment and RLIMIT_NOFILE
    bcalls,    \* builder calls made so far, each with the process state it saw
    bstate,    \* idle, building, panicked, spawned, execd
    exec,      \* what spawn marshalled and what the child passed to execve
    haux,      \* the id-map helper commands after_start ran: argv and outcome
    conc,      \* spawns running in several threads of one parent, and their children
    wire,      \* one error frame: what fail_errno was given, its bytes, what the parent decoded
    fmt        \* one call of format_pid_fixed: the pid and the slice returned

vars == <<cmd, pfds, pipes, plan, ppc, perr, result, child, cstatus, cpc, cfds,
          ccloexec, epipe, capplied, wbytes, ebuf, stray, cfail, clog, plog, eintr,
          handle, proc, hcalls, builder, osenv, bcalls, bstate, exec, haux, conc, wire, fmt>>

builderVars == <<builder, osenv, bcalls, bstate, exec>>
handleVars == <<handle, proc, hcalls>>
apiVars == <<handleVars, builderVars, haux, conc, wire, fmt>>

parentVars == <<pfds, pipes, plan, ppc, perr, result, plog>>
childVars == <<cpc, cfds, ccloexec, epipe, capplied, cfail, clog>>

NoResult == [tag |-> "none", kind |-> "", errno |-> 0]
OkResult == [tag |-> "Ok", kind |-> "", errno |-> 0]
ErrResult(kind, errno) == [tag |-> "Err", kind |-> kind, errno |-> errno]
NoFail == [code |-> 0, errno |-> 0]
NoPipes == [wakeup_rd |-> -1, wakeup |-> -1, errpipe |-> -1, errpipe_wr |-> -1]

NoStatus == <<"none", 0>>
NoHolder == <<-1, "none", -1>>
NoHandle == [status |-> NoStatus, fds |-> {}, stdin |-> NoHolder,
             stdout |-> NoHolder, stderr |-> NoHolder]

\* No Child handle exists (spawn has not returned one).
ApiIdle ==
    /\ handle = NoHandle
    /\ proc = [state |-> "none", status |-> NoStatus]
    /\ hcalls = <<>>

\* to_cstring: CString::new(bytes).unwrap() appends the terminating NUL
\* and panics on an interior NUL.
HasNul(bytes) == \E i \in 1..Len(bytes) : bytes[i] = 0
ToCString(bytes) == bytes \o <<0>>

NoEnviron == [some |-> FALSE, map |-> {}]
NoPivot == <<>>
NoExec == [filename |-> <<>>, argv |-> <<>>, envp |-> <<>>, slots |-> {}, pid |-> 0,
           closed |-> {}, old_inside |-> <<>>]

\* Command::new(program)
New(program) ==
    [filename |-> ToCString(program), args |-> <<ToCString(program)>>,
     environ |-> NoEnviron, pid_env_vars |-> {}, fds |-> StdioFds,
     close_fds |-> <<>>, pivot_root |-> NoPivot]

\* Threads of the parent that spawn at the same time.
MaxThreads == 2
Threads == 1..MaxThreads

\* No spawn of the concurrent family has started.
NoSpawns ==
    [tpc |-> [t \in Threads |-> "start"], kpc |-> [t \in Threads |-> "none"],
     pfd |-> {}, kfd |-> [t \in Threads |-> {}],
     wake |-> [t \in Threads |-> 0], err |-> [t \in Threads |-> 0],
     res |-> [t \in Threads |-> "none"]]

\* format_pid_fixed has not been called.
NoFormat == [pc |-> "idle", pid |-> 0, out |-> <<>>]

\* No error frame is in flight.
NoWire == [pc |-> "idle", code |-> 0, errno |-> 0, bytes |-> <<>>, res |-> OkResult]

\* No Command is being built.
BuilderIdle ==
    /\ conc = NoSpawns
    /\ wire = NoWire
    /\ fmt = NoFormat
    /\ builder = New(<<>>)
    /\ osenv = [vars |-> {}, rlimit |-> RlimitNofile]
    /\ bcalls = <<>>
    /\ bstate = "idle"
    /\ exec = NoExec

\* spawn has not been called.
SpawnStart(commands) ==
    /\ cmd \in commands
    /\ haux = <<>>
    /\ pfds = OpenTable(cmd.nopen)
    /\ pipes = NoPipes
    /\ plan = PlanStart(EmptyTable)
    /\ ppc = "start"
    /\ perr = NoResult
    /\ result = NoResult
    /\ child = "none"
    /\ cstatus = "none"
    /\ cpc = "entry"
    /\ cfds = EmptyTable
    /\ ccloexec = {}
    /\ epipe = -1
    /\ capplied = {}
    /\ wbytes = 0
    /\ ebuf = <<>>
    /\ stray = <<>>
    /\ cfail = NoFail
    /\ clog = <<>>
    /\ plog = <<>>
    /\ eintr = 0

InitWith(commands) == ApiIdle /\ BuilderIdle /\ SpawnStart(commands)

(* ------------------------------------------------------------------ *)
(* Parent: spawn_inner up to clone                                     *)
(* ------------------------------------------------------------------ *)

\* spawn returns: every holder still in scope is dropped.
Return(res, tbl, closing) ==
    /\ result' = res
    /\ pfds' = CloseAll(tbl, closing)
    /\ ppc' = "returned"

\* The pipe ends after_start is given, and no other.
PipeFdsOfAfterStart(p) == {p.wakeup, p.errpipe} \ {-1}

PipeFds(p) == {p.wakeup_rd, p.wakeup, p.errpipe, p.errpipe_wr} \ {-1}

\* let (wakeup_rd, wakeup) = Pipe::new()?.split();
\* let (errpipe, errpipe_wr) = Pipe::new()?.split();
CreatePipes ==
    /\ ppc = "start"
    /\ \E envFail \in 0..2 :
        LET w == Pipe2(pfds, WakeupR, WakeupW)
            e == Pipe2(w.tbl, ErrR, ErrW)
        IN  IF envFail = 1 \/ ~w.ok
            THEN /\ Return(ErrResult("CreatePipe", IF w.ok THEN ENFILE ELSE EMFILE), pfds, {})
                 /\ UNCHANGED pipes
            ELSE IF envFail = 2 \/ ~e.ok
            THEN /\ Return(ErrResult("CreatePipe", IF e.ok THEN ENFILE ELSE EMFILE), pfds, {})
                 /\ UNCHANGED pipes
            ELSE /\ pfds' = e.tbl
                 /\ pipes' = [wakeup_rd |-> w.rd, wakeup |-> w.wr,
                              errpipe |-> e.rd, errpipe_wr |-> e.wr]
                 /\ ppc' = "prepare"
                 /\ UNCHANGED result
    /\ plog' = Append(plog, "pipe2")
    /\ UNCHANGED <<apiVars, cmd, plan, perr, child, cstatus, childVars, wbytes, ebuf, stray, eintr>>

HolderFds(outer) == {h[3] : h \in outer}

\* One iteration of "for (&dest_fd, fdkind) in fds.iter()" of
\* prepare_descriptors, in the hash map's order, which is arbitrary.
PrepareDescriptors ==
    /\ ppc = "prepare"
    /\ \E entry \in {e \in cmd.fds : e[1] \notin Keys(plan.inner)}, envFail \in BOOLEAN :
        LET st == PlanEntry([plan EXCEPT !.tbl = pfds], entry[1], entry[2],
                            Keys(cmd.fds), envFail)
        IN  /\ plan' = st
            /\ IF st.err # 0
               THEN Return(ErrResult("CreatePipe", st.err), st.tbl,
                           st.guards \cup HolderFds(st.outer) \cup PipeFds(pipes))
               ELSE /\ pfds' = st.tbl
                    /\ ppc' = IF Keys(st.inner) = Keys(cmd.fds) THEN "clone" ELSE "prepare"
                    /\ UNCHANGED result
    /\ plog' = Append(plog, "prepare_descriptors")
    /\ UNCHANGED <<apiVars, cmd, pipes, perr, child, cstatus, childVars, wbytes, ebuf, stray, eintr>>

\* clone(...): the child starts with a copy of the descriptor table; then
\* drop(wakeup_rd); drop(errpipe_wr) in the parent.
Clone ==
    /\ ppc = "clone"
    /\ \/ \E e \in StepErrnos :
            /\ Return(ErrResult("Fork", e), pfds,
                      plan.guards \cup HolderFds(plan.outer) \cup PipeFds(pipes))
            /\ UNCHANGED <<child, cfds, ccloexec>>
       \/ /\ child' = "running"
          /\ cfds' = pfds
          /\ ccloexec' = {f \in FDS : pfds[f] # NoFile /\ pfds[f][1] # "stdio"}
          /\ pfds' = CloseAll(pfds, {pipes.wakeup_rd, pipes.errpipe_wr})
          /\ ppc' = "setpgid"
          /\ UNCHANGED result
    /\ plog' = Append(plog, "clone")
    /\ UNCHANGED <<apiVars, cmd, pipes, plan, perr, cstatus, cpc, epipe, capplied, cfail, clog,
                   wbytes, ebuf, stray, eintr>>

(* ------------------------------------------------------------------ *)
(* Error frames                                                        *)
(* ------------------------------------------------------------------ *)

\* (errno >> shift) as u8, errno an i32
ByteOf(errno, shift) == (errno \div (2^shift)) % 256

\* the bytes fail_errno writes
Frame(code, errno) ==
    <<code % 256, ByteOf(errno, 24), ByteOf(errno, 16), ByteOf(errno, 8), ByteOf(errno, 0)>>

\* the four bytes taken in the opposite order
DecodeErrnoLittleEndian(bytes) ==
    LET top == IF bytes[5] >= 128 THEN bytes[5] - 256 ELSE bytes[5]
    IN  top * (2^24) + bytes[4] * (2^16) + bytes[3] * (2^8) + bytes[2]

\* ((err[1] as i32) << 24) | ((err[2] as i32) << 16) | ((err[3] as i32) << 8) | (err[4] as i32)
DecodeErrno(bytes) ==
    LET top == IF bytes[2] >= 128 THEN bytes[2] - 256 ELSE bytes[2]
    IN  top * (2^24) + bytes[3] * (2^16) + bytes[4] * (2^8) + bytes[5]

KindName ==
    <<"CreatePipe", "Fork", "Exec", "Chdir", "ParentDeathSignal", "PipeError",
      "StdioError", "SetUser", "ChangeRoot", "SetIdMap", "SetPGid", "SetNs", "CapSet">>

\* ErrorCode::from_i32
from_i32(code, errno) ==
    IF code \in ErrorCodes THEN ErrResult(KindName[code], errno)
    ELSE ErrResult("UnknownError", 0)

(* ------------------------------------------------------------------ *)
(* Parent: after_start, and the reaping of the child on its failure    *)
(* ------------------------------------------------------------------ *)

EPIPE == 32

ChildAlive == child \in {"running", "execd"}

\* after_start returns Err: its wakeup and errpipe arguments are dropped,
\* and spawn_inner goes on to kill the child.
AfterStartErr(res) ==
    /\ perr' = res
    /\ pfds' = CloseAll(pfds, {pipes.wakeup, pipes.errpipe})
    /\ ppc' = "kill"
    /\ UNCHANGED <<pipes, plan, result>>

\* if self.config.make_group_leader { setpgid(pid, pid)? }
Setpgid ==
    /\ ppc = "setpgid"
    /\ IF cmd.make_group_leader
       THEN /\ plog' = Append(plog, "setpgid")
            /\ \/ \E e \in StepErrnos : AfterStartErr(ErrResult("SetPGid", e))
               \/ /\ ppc' = "uid_map"
                  /\ UNCHANGED <<pfds, pipes, plan, perr, result>>
       ELSE /\ ppc' = "uid_map"
            /\ UNCHANGED <<pfds, pipes, plan, perr, result, plog>>
    /\ UNCHANGED <<apiVars, cmd, child, cstatus, childVars, wbytes, ebuf, stray, eintr>>

\* set_id_maps(uid_map, gid_map): rows of (inside, outside, count)
UidMaps == << <<0, 1000, 1>>, <<1, 100000, 65536>> >>
GidMaps == << <<0, 100, 1>> >>

\* The pid clone returned to the parent.
ChildPid == 307

\* format!("{}", n) of an unsigned number: its decimal digits
RECURSIVE Display(_)
Display(n) ==
    IF n < 10 THEN <<48 + n>> ELSE Display(n \div 10) \o <<48 + (n % 10)>>

\* for map in maps { cmd.arg(inside); cmd.arg(outside); cmd.arg(count) }
RECURSIVE MapArgs(_)
MapArgs(maps) ==
    IF maps = <<>> THEN <<>>
    ELSE <<Display(Head(maps)[1]), Display(Head(maps)[2]), Display(Head(maps)[3])>>
         \o MapArgs(Tail(maps))

\* Command::new(helper); cmd.arg(format!("{}", pid)); the rows of the map
HelperArgv(which) ==
    IF which = "uid" THEN <<"newuidmap", Display(ChildPid)>> \o MapArgs(UidMaps)
    ELSE <<"newgidmap", Display(ChildPid)>> \o MapArgs(GidMaps)

\* What Command::status of a helper command returns.
HelperOutcomes == {<<"Exited", 0>>, <<"Exited", 1>>, <<"Signaled", 9>>, <<"Err", 2>>}

\* A cmd_result that takes every exit of the helper for a success.
cmd_result_any_exit(r) ==
    CASE r[1] = "Err" -> ErrResult("SetIdMap", r[2])
      [] r[1] = "Exited" -> OkResult
      [] OTHER -> ErrResult("AuxCommandKilled", r[2])

\* cmd_result(Err::SetIdMap, cmd.status())
cmd_result(r) ==
    CASE r[1] = "Err" -> ErrResult("SetIdMap", r[2])
      [] r[1] = "Exited" /\ r[2] = 0 -> OkResult
      [] r[1] = "Exited" -> ErrResult("AuxCommandExited", r[2])
      [] OTHER -> ErrResult("AuxCommandKilled", r[2])

\* The uid half (which = "uid") or gid half of the id-map block of
\* after_start: the helper command, or the write of /proc/<pid>/<which>_map.
WriteIdMap(which, pc, next) ==
    /\ ppc = pc
    /\ IF cmd.id_maps
       THEN IF cmd.id_map_commands
            THEN \E r \in HelperOutcomes :
                    /\ plog' = Append(plog, "helper_" \o which)
                    /\ haux' = Append(haux, [argv |-> HelperArgv(which), outcome |-> r])
                    /\ IF cmd_result(r).tag = "Ok"
                       THEN /\ ppc' = next
                            /\ UNCHANGED <<pfds, pipes, plan, perr, result>>
                       ELSE AfterStartErr(cmd_result(r))
            ELSE /\ plog' = Append(plog, "write_proc_" \o which \o "_map")
                 /\ UNCHANGED haux
                 /\ \/ \E e \in StepErrnos : AfterStartErr(ErrResult("SetIdMap", e))
                    \/ /\ ppc' = next
                       /\ UNCHANGED <<pfds, pipes, plan, perr, result>>
       ELSE /\ ppc' = next
            /\ UNCHANGED <<pfds, pipes, plan, perr, result, plog, haux>>
    /\ UNCHANGED <<handleVars, builderVars, conc, wire, fmt, cmd, child, cstatus, childVars, wbytes,
                   ebuf, stray, eintr>>

ParentUidMap == WriteIdMap("uid", "uid_map", "gid_map")
ParentGidMap == WriteIdMap("gid", "gid_map", "wakeup_write")

\* wakeup.write_all(b"x"): EPIPE when no process holds the read end.
WakeupWrite ==
    /\ ppc = "wakeup_write"
    /\ plog' = Append(plog, "wakeup_write")
    /\ IF ChildAlive /\ FdsOf(cfds, WakeupR) # {}
       THEN /\ wbytes' = wbytes + 1
            /\ ppc' = "err_read"
            /\ UNCHANGED <<pfds, pipes, plan, perr, result>>
       ELSE /\ AfterStartErr(ErrResult("PipeError", EPIPE))
            /\ UNCHANGED wbytes
    /\ UNCHANGED <<apiVars, cmd, child, cstatus, childVars, ebuf, stray, eintr>>

Min(a, b) == IF a < b THEN a ELSE b

\* A match that takes any read of five bytes or more for a frame.
DecodeReadAtLeastFive(n, bytes) ==
    CASE n = 0 -> OkResult
      [] n >= 5 -> from_i32(bytes[1], DecodeErrno(bytes))
      [] OTHER -> ErrResult("UnknownError", 0)

\* The match on the byte count of errpipe.read(&mut err), err a [u8; 6].
DecodeRead(n, bytes) ==
    CASE n = 0 -> OkResult
      [] n = 5 -> from_i32(bytes[1], DecodeErrno(bytes))
      [] OTHER -> ErrResult("UnknownError", 0)

ErrPipeHasWriter == ChildAlive /\ FdsOf(cfds, ErrW) # {}

\* errpipe.read(&mut err) and what follows it in after_start and spawn_inner.
ErrRead ==
    /\ ppc = "err_read"
    /\ plog' = Append(plog, "errpipe_read")
    /\ \/ /\ eintr < MaxEintr
          /\ eintr' = eintr + 1
          /\ AfterStartErr(ErrResult("PipeError", EINTR))
          /\ UNCHANGED ebuf
       \/ /\ ebuf # <<>> \/ ~ErrPipeHasWriter
          /\ LET n == Min(6, Len(ebuf))
                 res == DecodeRead(n, SubSeq(ebuf, 1, n))
             IN  /\ ebuf' = SubSeq(ebuf, n + 1, Len(ebuf))
                 /\ IF res.tag = "Ok"
                    THEN /\ Return(OkResult, pfds,
                                   {pipes.wakeup, pipes.errpipe} \cup plan.guards)
                         /\ UNCHANGED <<pipes, plan, perr>>
                    ELSE AfterStartErr(res)
          /\ UNCHANGED eintr
    /\ UNCHANGED <<apiVars, cmd, child, cstatus, childVars, wbytes, stray>>

\* kill(pid, SIGKILL).ok()
Kill ==
    /\ ppc = "kill"
    /\ plog' = Append(plog, "kill")
    /\ ppc' = "waitpid"
    /\ IF ChildAlive
       THEN /\ child' = "zombie"
            /\ cstatus' = "killed"
            /\ cfds' = EmptyTable
       ELSE UNCHANGED <<child, cstatus, cfds>>
    /\ UNCHANGED <<apiVars, cmd, pfds, pipes, plan, perr, result, cpc, ccloexec, epipe,
                   capplied, cfail, clog, wbytes, ebuf, stray, eintr>>

\* A reaping loop that gives up on the first interrupted waitpid.
NeverRetryWait(rc) == FALSE

\* match waitpid(pid, None) { Err(EINTR) => continue, _ => break }
RetryWait(rc) == rc = "EINTR"

\* The reaping loop of spawn_inner and its "return Err(e)".
Waitpid ==
    /\ ppc = "waitpid"
    /\ plog' = Append(plog, "waitpid")
    /\ \E rc \in {"EINTR", "Reaped"} :
        /\ rc = "EINTR" => eintr < MaxEintr
        /\ rc = "Reaped" => child = "zombie"
        /\ eintr' = IF rc = "EINTR" THEN eintr + 1 ELSE eintr
        /\ child' = IF rc = "Reaped" THEN "reaped" ELSE child
        /\ IF RetryWait(rc)
           THEN UNCHANGED <<pfds, ppc, result>>
           ELSE Return(perr, pfds, plan.guards \cup HolderFds(plan.outer))
    /\ UNCHANGED <<apiVars, cmd, pipes, plan, perr, cstatus, childVars, wbytes, ebuf, stray>>

(* ------------------------------------------------------------------ *)
(* Child: child_after_clone                                            *)
(* ------------------------------------------------------------------ *)

ParentUnchanged == UNCHANGED <<apiVars, cmd, pfds, pipes, plan, ppc, perr, result, plog>>

\* A fail_errno that writes the frame and returns to its caller.
fail_errno_returns(code, errno, output) ==
    /\ cfail' = [code |-> code, errno |-> errno]
    /\ ebuf' = IF output \in FDS /\ cfds[output] = ErrW THEN ebuf \o Frame(code, errno) ELSE ebuf
    /\ UNCHANGED <<stray, child, cstatus, cfds, cpc, ccloexec, epipe, capplied>>

\* fail_errno(code, errno, output): five bytes to the descriptor output,
\* whatever it refers to, then _exit(127).
fail_errno(code, errno, output) ==
    /\ cfail' = [code |-> code, errno |-> errno]
    /\ IF output \in FDS /\ cfds[output] = ErrW
       THEN /\ ebuf' = ebuf \o Frame(code, errno)
            /\ UNCHANGED stray
       ELSE IF output \in FDS /\ cfds[output] # NoFile
       THEN /\ stray' = Append(stray, <<cfds[output], Frame(code, errno)>>)
            /\ UNCHANGED ebuf
       ELSE UNCHANGED <<ebuf, stray>>
    /\ child' = "zombie"
    /\ cstatus' = "exit127"
    /\ cfds' = EmptyTable
    /\ cpc' = "exited"
    /\ UNCHANGED <<ccloexec, epipe, capplied>>

Advance(next, calls) ==
    /\ cpc' = next
    /\ clog' = clog \o calls
    /\ UNCHANGED <<child, cstatus, cfds, ccloexec, epipe, capplied, cfail, ebuf, stray>>

\* A block of child_after_clone that runs the system calls `calls` in order
\* when it is configured, and reports `code` with the errno of the first
\* call that fails.
Step(pc, next, configured, code, calls) ==
    /\ child = "running"
    /\ cpc = pc
    /\ IF configured
       THEN \/ Advance(next, calls)
            \/ \E k \in 1..Len(calls), e \in StepErrnos :
                /\ clog' = clog \o SubSeq(calls, 1, k)
                /\ fail_errno(code, e, epipe)
       ELSE Advance(next, <<>>)
    /\ UNCHANGED <<wbytes, eintr>>
    /\ ParentUnchanged

\* The clone closure: close(wakeup.take().unwrap().into_fd()), and
\* "let mut epipe = child.error_pipe".
ChildEntry ==
    /\ child = "running"
    /\ cpc = "entry"
    /\ cfds' = CloseAll(cfds, {pipes.wakeup})
    /\ epipe' = pipes.errpipe_wr
    /\ cpc' = "pdeathsig"
    /\ UNCHANGED <<child, cstatus, ccloexec, capplied, cfail, clog, ebuf, stray, wbytes, eintr>>
    /\ ParentUnchanged

SetPDeathSig ==
    Step("pdeathsig", "wakeup", cmd.death_sig, ParentDeathSignal, <<"prctl_pdeathsig">>)

\* A wake-up loop that leaves on an interrupted read.
AfterWakeupReadEager(rc, errno, death_sig) ==
    IF rc = 0 /\ death_sig THEN "selfkill" ELSE "proceed"

\* A wake-up loop that goes on at end-of-file whatever death_sig is.
AfterWakeupReadNoSelfKill(rc, errno, death_sig) ==
    IF rc < 0 THEN (IF errno = EINTR \/ errno = EAGAIN THEN "retry" ELSE "fail")
    ELSE "proceed"

\* What the wake-up loop does with the result rc of read (errno when rc < 0).
AfterWakeupRead(rc, errno, death_sig) ==
    IF rc = 0 THEN (IF death_sig THEN "selfkill" ELSE "proceed")
    ELSE IF rc < 0 THEN (IF errno = EINTR \/ errno = EAGAIN THEN "retry" ELSE "fail")
    ELSE "proceed"

WakeupHasWriter == FdsOf(pfds, WakeupW) # {} \/ (ChildAlive /\ FdsOf(cfds, WakeupW) # {})

\* One turn of the loop around libc::read(child.wakeup_pipe, ..., 1).
WakeupRead ==
    /\ child = "running"
    /\ cpc = "wakeup"
    /\ \E rc \in {-1, 0, 1}, errno \in ReadErrnos :
        /\ rc = 1 => wbytes > 0
        /\ rc = 0 => wbytes = 0 /\ ~WakeupHasWriter
        /\ rc >= 0 => errno = EINTR
        /\ (rc < 0 /\ errno \in {EINTR, EAGAIN}) => eintr < MaxEintr
        /\ wbytes' = IF rc = 1 THEN wbytes - 1 ELSE wbytes
        /\ eintr' = IF rc < 0 /\ errno \in {EINTR, EAGAIN} THEN eintr + 1 ELSE eintr
        /\ LET todo == AfterWakeupRead(rc, errno, cmd.death_sig)
           IN  CASE todo = "proceed" ->
                        Advance("uid_map", <<IF rc = 0 THEN "wakeup_eof" ELSE "wakeup_read">>)
                 [] todo = "retry" -> Advance("wakeup", <<>>)
                 [] todo = "selfkill" ->
                        \* kill(getpid(), sig); _exit(127): the signal ends
                        \* the process (SIGKILL, the default), or it is
                        \* ignored or handled and _exit(127) runs
                        /\ child' = "zombie"
                        /\ cstatus' \in {"selfkill", "exit127"}
                        /\ cfds' = EmptyTable
                        /\ cpc' = "exited"
                        /\ clog' = Append(clog, "kill_self")
                        /\ UNCHANGED <<ccloexec, epipe, capplied, cfail, ebuf, stray>>
                 [] OTHER ->
                        \* fail(Err::PipeError, errno): errno is passed as
                        \* the descriptor to write to
                        /\ clog' = clog
                        /\ fail_errno(PipeError, errno, errno)
    /\ ParentUnchanged

\* child.uid_maps / child.gid_maps are not empty: id maps without helpers.
ChildWritesIdMaps(c) == c.id_maps /\ ~c.id_map_commands

WriteUidMap ==
    Step("uid_map", "gid_map", ChildWritesIdMaps(cmd), SetIdMap,
         <<"open_uid_map", "write_uid_map", "close_uid_map">>)

\* A child that writes gid_map before it denies setgroups.
WriteGidMapFirst ==
    Step("gid_map", "move_epipe", ChildWritesIdMaps(cmd), SetIdMap,
         <<"open_gid_map", "write_gid_map", "close_gid_map",
           "open_setgroups", "write_setgroups_deny", "close_setgroups">>)

WriteGidMap ==
    Step("gid_map", "move_epipe", ChildWritesIdMaps(cmd), SetIdMap,
         <<"open_setgroups", "write_setgroups_deny", "close_setgroups",
           "open_gid_map", "write_gid_map", "close_gid_map">>)

\* while epipe < 3 { epipe = fcntl(epipe, F_DUPFD_CLOEXEC, 3) }
MoveErrorPipe ==
    /\ child = "running"
    /\ cpc = "move_epipe"
    /\ IF epipe < 3
       THEN LET nerr == LowestFree(cfds, 3)
            IN  IF nerr < 0
                THEN /\ clog' = Append(clog, "dup_epipe")
                     /\ fail_errno(CreatePipe, EMFILE, epipe)
                ELSE /\ cfds' = [cfds EXCEPT ![nerr] = cfds[epipe]]
                     /\ ccloexec' = ccloexec \cup {nerr}
                     /\ epipe' = nerr
                     /\ cpc' = "setns"
                     /\ clog' = Append(clog, "dup_epipe")
                     /\ UNCHANGED <<child, cstatus, capplied, cfail, ebuf, stray>>
       ELSE Advance("setns", <<>>)
    /\ UNCHANGED <<wbytes, eintr>>
    /\ ParentUnchanged

SetNamespaces == Step("setns", "pid_env", cmd.setns, SetNs, <<"setns">>)

\* format_pid_fixed and the copy into the environ strings; nothing can fail.
PatchPidEnv ==
    /\ child = "running"
    /\ cpc = "pid_env"
    /\ Advance("pivot", IF cmd.pid_env_vars THEN <<"patch_pid_env">> ELSE <<>>)
    /\ UNCHANGED <<wbytes, eintr>>
    /\ ParentUnchanged

PivotRoot ==
    Step("pivot", "chroot", cmd.pivot # "none", ChangeRoot,
         IF cmd.pivot = "unmount" THEN <<"pivot_root", "chdir_new_root", "umount2">>
         ELSE <<"pivot_root", "chdir_new_root">>)

\* A child that changes directory before it changes root.
ChdirBeforeChroot == Step("chroot", "keepcaps", cmd.chroot, ChangeRoot, <<"chdir_chroot", "chroot">>)

Chroot == Step("chroot", "keepcaps", cmd.chroot, ChangeRoot, <<"chroot", "chdir_chroot">>)

SetKeepCaps == Step("keepcaps", "setgid", cmd.keep_caps, CapSet, <<"prctl_keepcaps">>)

\* A child that changes its uid where setgid belongs.
SetUidBeforeGroups == Step("setgid", "setgroups", cmd.uid, SetUser, <<"setuid">>)

SetGid == Step("setgid", "setgroups", cmd.gid, SetUser, <<"setgid">>)

SetGroups == Step("setgroups", "setuid", cmd.groups, SetUser, <<"setgroups">>)

SetUid == Step("setuid", "capset", cmd.uid, SetUser, <<"setuid">>)

CapsetCall == Step("capset", "ambient", cmd.keep_caps, CapSet, <<"capset">>)

\* The capabilities in the bitmap a keep_caps call of the model stores.
CapBits == {1, 33}

\* The calls of the loop "for idx in 0..caps.len()*32": it stops at the
\* first raise that fails with ENOTSUP and ignores every other failure.
RECURSIVE AmbientCalls(_, _)
AmbientCalls(outcomes, i) ==
    IF i > Len(outcomes) THEN <<>>
    ELSE IF outcomes[i] = ENOTSUP THEN <<"ambient_raise_enotsup">>
    ELSE <<IF outcomes[i] = 0 THEN "ambient_raise" ELSE "ambient_raise_failed">>
            \o AmbientCalls(outcomes, i + 1)

RaiseAmbient ==
    /\ child = "running"
    /\ cpc = "ambient"
    /\ IF cmd.keep_caps
       THEN \E outcomes \in [1..Cardinality(CapBits) -> {0, 1, ENOTSUP}] :
                Advance("workdir", AmbientCalls(outcomes, 1))
       ELSE Advance("workdir", <<>>)
    /\ UNCHANGED <<wbytes, eintr>>
    /\ ParentUnchanged

ChangeDir == Step("workdir", "fds", cmd.work_dir, Chdir, <<"chdir_work_dir">>)

\* One iteration of "for &(dest_fd, src_fd) in child.fds", in the order of
\* the vector, which is the arbitrary order of a hash map.
ApplyFd ==
    /\ child = "running"
    /\ cpc = "fds"
    /\ \E entry \in {e \in plan.inner : e[1] \notin capplied} :
        LET dest == entry[1]
            src == entry[2]
            last == capplied \cup {dest} = Keys(plan.inner)
        IN  \/ /\ cfds[src] # NoFile
               /\ cfds' = [cfds EXCEPT ![dest] = cfds[src]]
               /\ ccloexec' = ccloexec \ {dest}
               /\ capplied' = capplied \cup {dest}
               /\ cpc' = IF last THEN "close_fds" ELSE "fds"
               /\ clog' = Append(clog, IF src = dest THEN "clear_cloexec" ELSE "dup2")
               /\ UNCHANGED <<child, cstatus, epipe, cfail, ebuf, stray>>
            \/ /\ cfds[src] = NoFile
               /\ clog' = Append(clog, IF src = dest THEN "clear_cloexec" ELSE "dup2")
               /\ fail_errno(StdioError, EBADF, epipe)
    /\ UNCHANGED <<wbytes, eintr>>
    /\ ParentUnchanged

\* A close loop that does not look at the targets of the plan.
CloseSetNoTargets(ranges, targets) ==
    {fd \in FDS : \E i \in 1..Len(ranges) :
                    ranges[i][1] < ranges[i][2] /\ ranges[i][1] <= fd /\ fd < ranges[i][2]}

\* A loop over child.close_fds that spares only 0, 1 and 2.
CloseSetSparesStdio(ranges, targets) ==
    {fd \in FDS : /\ \E i \in 1..Len(ranges) :
                        ranges[i][1] < ranges[i][2] /\ ranges[i][1] <= fd /\ fd < ranges[i][2]
                  /\ fd > 2}

\* The descriptors the loop over child.close_fds closes.
CloseSet(ranges, targets) ==
    {fd \in FDS : /\ \E i \in 1..Len(ranges) :
                        ranges[i][1] < ranges[i][2] /\ ranges[i][1] <= fd /\ fd < ranges[i][2]
                  /\ fd \notin targets}

CloseFds ==
    /\ child = "running"
    /\ cpc = "close_fds"
    /\ cfds' = CloseAll(cfds, CloseSet(cmd.close_fds, Keys(plan.inner)))
    /\ cpc' = "sigmask"
    /\ clog' = IF Len(cmd.close_fds) > 0 THEN Append(clog, "close_range") ELSE clog
    /\ UNCHANGED <<child, cstatus, ccloexec, epipe, capplied, cfail, ebuf, stray, wbytes, eintr>>
    /\ ParentUnchanged

RestoreSigmask ==
    /\ child = "running"
    /\ cpc = "sigmask"
    /\ Advance("pre_exec", IF cmd.restore_sigmask THEN <<"pthread_sigmask", "signal_dfl">> ELSE <<>>)
    /\ UNCHANGED <<wbytes, eintr>>
    /\ ParentUnchanged

\* What the pre_exec closure returns: Ok, an io::Error with an OS error
\* code, or an io::Error without one (raw_os_error() is None).
PreExecOutcomes == {<<"Ok", 0>>, <<"Err", 1>>, <<"Err", 2>>, <<"ErrNoCode", 0>>}

RunPreExec ==
    /\ child = "running"
    /\ cpc = "pre_exec"
    /\ IF cmd.pre_exec
       THEN \E r \in PreExecOutcomes :
                IF r[1] = "Ok" THEN Advance("execve", <<"pre_exec">>)
                ELSE /\ clog' = Append(clog, "pre_exec")
                     /\ fail_errno(PreExec, IF r[1] = "Err" THEN r[2] ELSE NoOsErrorSentinel,
                                   epipe)
       ELSE Advance("execve", <<>>)
    /\ UNCHANGED <<wbytes, eintr>>
    /\ ParentUnchanged

\* libc::execve(...); fail(Err::Exec, epipe)
Execve ==
    /\ child = "running"
    /\ cpc = "execve"
    /\ clog' = Append(clog, "execve")
    /\ \/ /\ child' = "execd"
          /\ cpc' = "execd"
          /\ cfds' = CloseAll(cfds, ccloexec)
          /\ UNCHANGED <<cstatus, ccloexec, epipe, capplied, cfail, ebuf, stray>>
       \/ \E e \in StepErrnos : fail_errno(Exec, e, epipe)
    /\ UNCHANGED <<wbytes, eintr>>
    /\ ParentUnchanged

ChildNext ==
    \/ ChildEntry \/ SetPDeathSig \/ WakeupRead \/ WriteUidMap \/ WriteGidMap
    \/ MoveErrorPipe \/ SetNamespaces \/ PatchPidEnv \/ PivotRoot \/ Chroot
    \/ SetKeepCaps \/ SetGid \/ SetGroups \/ SetUid \/ CapsetCall \/ RaiseAmbient
    \/ ChangeDir \/ ApplyFd \/ CloseFds \/ RestoreSigmask \/ RunPreExec \/ Execve

ParentNext ==
    \/ CreatePipes \/ PrepareDescriptors \/ Clone \/ Setpgid \/ ParentUidMap
    \/ ParentGidMap \/ WakeupWrite \/ ErrRead \/ Kill \/ Waitpid

Next == ParentNext \/ ChildNext

(* ------------------------------------------------------------------ *)
(* The Child handle: wait, signal, kill, take_pipe_reader/writer       *)
(* ------------------------------------------------------------------ *)

\* Calls made on one handle.
MaxCalls == 3

\* prepare_descriptors run to its end over the whole intent map, in one of
\* the orders of the hash map.
RECURSIVE PlanAll(_, _, _)
PlanAll(st, todo, keys) ==
    IF todo = {} \/ st.err # 0 THEN st
    ELSE LET e == CHOOSE x \in todo : \A y \in todo : x[1] <= y[1]
         IN  PlanAll(PlanEntry(st, e[1], e[2], keys, FALSE), todo \ {e}, keys)

\* fds.insert(target, cfg) on the intent map
Insert(fds, target, cfg) == {e \in fds : e[1] # target} \cup {<<target, cfg>>}

RECURSIVE InsertAll(_, _)
InsertAll(fds, entries) ==
    IF entries = {} THEN fds
    ELSE LET e == CHOOSE x \in entries : TRUE
         IN  InsertAll(Insert(fds, e[1], e[2]), entries \ {e})

\* The intent maps of the commands whose handles are exercised.
HandleMaps ==
    { InsertAll(StdioFds, m) :
        m \in SUBSET {<<0, ReadPipe>>, <<1, WritePipe>>, <<3, ReadPipe>>,
                      <<4, WritePipe>>, <<6, ReadNull>>} }

\* outer_fds.remove(&fd) of the Child { ... } expression.
HolderAt(outer, fd) ==
    IF \E h \in outer : h[1] = fd THEN CHOOSE h \in outer : h[1] = fd ELSE NoHolder

\* Ok(Child { pid, status: None, stdin, stdout, stderr, fds: outer_fds })
NewChild(outer) ==
    [status |-> NoStatus,
     stdin |-> HolderAt(outer, 0),
     stdout |-> HolderAt(outer, 1),
     stderr |-> HolderAt(outer, 2),
     fds |-> {h \in outer : h[1] > 2}]

\* The state right after a spawn that returned Ok(Child): the child has
\* performed execve and runs.
InitChild ==
    /\ cmd \in {[DefaultCommand EXCEPT !.fds = m] : m \in HandleMaps}
    /\ pipes = NoPipes
    /\ plan = PlanAll(PlanStart(OpenTable(0)), cmd.fds, Keys(cmd.fds))
    /\ pfds = CloseAll(plan.tbl, plan.guards)
    /\ ppc = "returned"
    /\ perr = NoResult
    /\ result = OkResult
    /\ child = "execd"
    /\ cstatus = "none"
    /\ cpc = "execd"
    /\ cfds = EmptyTable
    /\ ccloexec = {}
    /\ epipe = -1
    /\ capplied = {}
    /\ wbytes = 0
    /\ ebuf = <<>>
    /\ stray = <<>>
    /\ cfail = NoFail
    /\ clog = <<>>
    /\ plog = <<>>
    /\ eintr = 0
    /\ handle = NewChild(plan.outer)
    /\ proc = [state |-> "running", status |-> NoStatus]
    /\ hcalls = <<>>
    /\ haux = <<>>
    /\ BuilderIdle

SpawnUnchanged ==
    UNCHANGED <<builderVars, haux, conc, wire, fmt, cmd, pfds, pipes, plan, ppc, perr, result, child, cstatus, cpc, cfds,
                ccloexec, epipe, capplied, wbytes, ebuf, stray, cfail, clog, plog, eintr>>

SIGKILL == 9
SIGUSR1 == 10
ECHILD == 10
ESRCH == 3

\* What the process can end with: exit codes and fatal signals.
WaitStatuses == {<<"Exited", 0>>, <<"Exited", 1>>, <<"Exited", 255>>, <<"Signaled", 15>>}

\* The process ends on its own.
ProcExit ==
    /\ proc.state = "running"
    /\ \E st \in WaitStatuses : proc' = [state |-> "zombie", status |-> st]
    /\ UNCHANGED <<handle, hcalls>>
    /\ SpawnUnchanged

\* ZombieIterator::next: waitpid(None, WNOHANG) reaps the process behind
\* the handle's back.
ReapZombies ==
    /\ proc.state = "zombie"
    /\ proc' = [proc EXCEPT !.state = "reaped"]
    /\ UNCHANGED <<handle, hcalls>>
    /\ SpawnUnchanged

Call(name, arg, tag, status, holder, sys) ==
    [call |-> name, arg |-> arg, tag |-> tag, status |-> status, holder |-> holder,
     sys |-> sys]

\* status as i8
AsI8(x) == IF x % 256 >= 128 THEN (x % 256) - 256 ELSE x % 256

\* ExitStatus::Exited(status as i8) / ExitStatus::Signaled(sig, core)
ExitStatusOf(st) == IF st[1] = "Exited" THEN <<"Exited", AsI8(st[2])>> ELSE st

RECURSIVE Repeat(_, _)
Repeat(x, n) == IF n = 0 THEN <<>> ELSE <<x>> \o Repeat(x, n - 1)

\* A wait that never consults the cached status.
WaitNeverCached(status) == FALSE

\* if let Some(x) = self.status { return Ok(x) }
WaitCached(status) == status # NoStatus

\* Child::wait, with _wait: waitpid is retried while it is interrupted and
\* blocks while the process runs.
Wait ==
    /\ Len(hcalls) < MaxCalls
    /\ IF WaitCached(handle.status)
       THEN /\ hcalls' = Append(hcalls, Call("wait", 0, "Ok", handle.status, NoHolder, <<>>))
            /\ UNCHANGED <<handle, proc>>
       ELSE /\ proc.state # "running"
            /\ \E n \in 0..MaxEintr :
                LET sys == Repeat("waitpid_eintr", n) \o <<"waitpid">>
                IN  IF proc.state = "zombie"
                    THEN /\ handle' = [handle EXCEPT !.status = ExitStatusOf(proc.status)]
                         /\ proc' = [proc EXCEPT !.state = "reaped"]
                         /\ hcalls' = Append(hcalls,
                                Call("wait", 0, "Ok", ExitStatusOf(proc.status), NoHolder, sys))
                    ELSE /\ hcalls' = Append(hcalls,
                                Call("wait", 0, "Err", <<"errno", ECHILD>>, NoHolder, sys))
                         /\ UNCHANGED <<handle, proc>>
    /\ SpawnUnchanged

\* A signal that is never refused.
SignalNeverRefused(status) == FALSE

\* if self.status.is_some() { return Err(InvalidInput) }
SignalRefused(status) == status # NoStatus

\* Child::signal(sig)
SignalWith(name, sig) ==
    /\ Len(hcalls) < MaxCalls
    /\ IF SignalRefused(handle.status)
       THEN /\ hcalls' = Append(hcalls,
                    Call(name, sig, "Err", <<"InvalidInput", 0>>, NoHolder, <<>>))
            /\ UNCHANGED proc
       ELSE IF proc.state = "reaped"
       THEN /\ hcalls' = Append(hcalls,
                    Call(name, sig, "Err", <<"errno", ESRCH>>, NoHolder, <<"kill">>))
            /\ UNCHANGED proc
       ELSE /\ hcalls' = Append(hcalls, Call(name, sig, "Ok", NoStatus, NoHolder, <<"kill">>))
            /\ IF proc.state = "running"
               THEN \/ proc' = [state |-> "zombie", status |-> <<"Signaled", sig>>]
                    \/ sig # SIGKILL /\ UNCHANGED proc
               ELSE UNCHANGED proc
    /\ UNCHANGED handle
    /\ SpawnUnchanged

Signal == SignalWith("signal", SIGUSR1)

\* Child::kill: self.signal(SIGKILL)
KillChild == SignalWith("kill", SIGKILL)

\* The descriptors take_pipe_reader / take_pipe_writer are asked for.
TakeFds == {0, 3, 4, 6}

\* match self.fds.remove(&fd) { Some(PipeHolder::<kind>(x)) => Some(x), _ => None }
TakePipe(name, kind) ==
    /\ Len(hcalls) < MaxCalls
    /\ \E fd \in TakeFds :
        LET h == HolderAt(handle.fds, fd)
        IN  /\ handle' = [handle EXCEPT !.fds = {x \in @ : x[1] # fd}]
            /\ hcalls' = Append(hcalls,
                    IF h[2] = kind THEN Call(name, fd, "Some", NoStatus, h, <<>>)
                    ELSE Call(name, fd, "None", NoStatus, NoHolder, <<>>))
    /\ UNCHANGED proc
    /\ SpawnUnchanged

TakePipeReader == TakePipe("take_pipe_reader", "Reader")
TakePipeWriter == TakePipe("take_pipe_writer", "Writer")

NextChild ==
    \/ ProcExit \/ ReapZombies \/ Wait \/ Signal \/ KillChild
    \/ TakePipeReader \/ TakePipeWriter

SpecChild == InitChild /\ [][NextChild]_vars

(* ------------------------------------------------------------------ *)
(* The Command builder: descriptors, close ranges, pivot_root          *)
(* ------------------------------------------------------------------ *)

\* Builder calls made on one Command.
MaxBuilderCalls == 3

BuilderOnly ==
    UNCHANGED <<handleVars, haux, conc, wire, fmt, cmd, pfds, pipes, plan, ppc, perr, result, child,
                cstatus, cpc, cfds, ccloexec, epipe, capplied, wbytes, ebuf, stray,
                cfail, clog, plog, eintr>>

\* One builder call: it returns with the Command as "next", or it panics.
BuilderCall(name, a, b, panics, next) ==
    /\ bstate = "building"
    /\ Len(bcalls) < MaxBuilderCalls
    /\ bcalls' = Append(bcalls, [call |-> name, a |-> a, b |-> b, os |-> osenv,
                                 panic |-> panics])
    /\ bstate' = IF panics THEN "panicked" ELSE "building"
    /\ builder' = next
    /\ UNCHANGED <<osenv, exec>>
    /\ BuilderOnly

\* The limits the calling process may run under.
RlimitValues == {RlimitNofile, RlimitNofile - 4}

\* setrlimit(RLIMIT_NOFILE) between two builder calls. The kernel keeps the
\* limit below 2^31, so "rlim_cur as RawFd" keeps its value.
SetRlimit ==
    /\ bstate = "building"
    /\ \E r \in RlimitValues \ {osenv.rlimit} : osenv' = [osenv EXCEPT !.rlimit = r]
    /\ UNCHANGED <<builder, bcalls, bstate, exec>>
    /\ BuilderOnly

\* Fd::RawFd(src)
RawFdOf(src) == <<"RawFd", src>>

\* Command::file_descriptor(target_fd, cfg)
file_descriptor ==
    \E t \in {2, 3, 5}, cfg \in {ReadPipe, WriteNull} :
        BuilderCall("file_descriptor", t, cfg, t <= 2,
                    IF t <= 2 THEN builder
                    ELSE [builder EXCEPT !.fds = Insert(@, t, cfg)])

\* Command::file_descriptor_raw(target_fd, src)
file_descriptor_raw ==
    \E t \in {1, 4, 5} :
        BuilderCall("file_descriptor_raw", t, 7, FALSE,
                    [builder EXCEPT !.fds = Insert(@, t, RawFdOf(7))])

\* The ranges close_fds is called with: a..b, ..b, a.. and ..
RangeArgs ==
    {<<"Range", 2, 5>>, <<"Range", 3, 6>>, <<"Range", 5, 9>>, <<"RangeTo", 0, 7>>,
     <<"RangeFrom", 1, 0>>, <<"RangeFrom", 4, 0>>, <<"RangeFull", 0, 0>>}

\* impl Into<AnyRange> for Range, RangeTo, RangeFrom, RangeFull
IntoAnyRange(r) ==
    CASE r[1] = "Range" -> <<"Range", r[2], r[3]>>
      [] r[1] = "RangeTo" -> <<"Range", 3, r[3]>>
      [] r[1] = "RangeFrom" -> <<"RangeFrom", r[2], 0>>
      [] r[1] = "RangeFull" -> <<"RangeFrom", 3, 0>>

\* A close_fds that accepts every lower bound.
AnyLowerBound(x) == TRUE

\* assert!(x >= 3)
LowerBoundOk(x) == x >= 3

\* Command::close_fds(range); rcFail: getrlimit fails.
close_fds ==
    \E r \in RangeArgs, rcFail \in BOOLEAN :
        LET any == IntoAnyRange(r)
            panics == \/ ~LowerBoundOk(any[2])
                      \/ any[1] = "RangeFrom" /\ rcFail
            stored == IF any[1] = "Range" THEN <<any[2], any[3]>>
                      ELSE <<any[2], osenv.rlimit>>
        IN  /\ rcFail => any[1] = "RangeFrom" /\ LowerBoundOk(any[2])
            /\ BuilderCall("close_fds", r, rcFail, panics,
                           IF panics THEN builder
                           ELSE [builder EXCEPT !.close_fds = Append(@, stored)])

\* Command::reset_fds
reset_fds ==
    BuilderCall("reset_fds", 0, 0, FALSE,
                [builder EXCEPT !.fds = StdioFds, !.close_fds = <<>>])

\* Path::components of the paths pivot_root is called with.
Paths == {<<"/", "a">>, <<"/", "a", "b">>, <<"/", "c">>, <<"a", "b">>}

\* Path::is_absolute
IsAbsolute(path) == Len(path) > 0 /\ path[1] = "/"

\* new_root.components().zip(old_cmp.by_ref()) finds a pair n != o
ZipDiffers(new_root, put_old) ==
    \E i \in 1..Min(Len(new_root), Len(put_old)) : new_root[i] # put_old[i]

\* Command::pivot_root(new_root, put_old, unmount)
pivot_root ==
    \E new_root \in Paths, put_old \in Paths, unmount \in {TRUE} :
        LET panics == \/ ~IsAbsolute(new_root)
                      \/ ~IsAbsolute(put_old)
                      \/ ZipDiffers(new_root, put_old)
        IN  BuilderCall("pivot_root", new_root, put_old, panics,
                        IF panics THEN builder
                        ELSE [builder EXCEPT !.pivot_root = <<new_root, put_old, unmount>>])

\* relative_to(dir, rel, true): None when a zipped pair differs, else the
\* rest of dir under "/".
relative_to(dir, rel) ==
    IF ZipDiffers(rel, dir) THEN <<>>
    ELSE <<"/">> \o SubSeq(dir, Min(Len(rel), Len(dir)) + 1, Len(dir))

\* spawn of the built Command up to the child's loop over close_fds:
\* old_inside of the Pivot and the descriptors the loop closes.
SpawnConfig ==
    /\ bstate = "building"
    /\ bstate' = "spawned"
    /\ exec' = [NoExec EXCEPT
                    !.closed = CloseSet(builder.close_fds, Keys(builder.fds)),
                    !.old_inside = IF builder.pivot_root = NoPivot THEN <<>>
                                  ELSE relative_to(builder.pivot_root[2],
                                                   builder.pivot_root[1])]
    /\ UNCHANGED <<builder, osenv, bcalls>>
    /\ BuilderOnly

InitBuilder ==
    /\ ApiIdle
    /\ SpawnStart({DefaultCommand})
    /\ conc = NoSpawns
    /\ wire = NoWire
    /\ fmt = NoFormat
    /\ builder = New(<<47, 120>>)
    /\ osenv \in {[vars |-> {}, rlimit |-> r] : r \in RlimitValues}
    /\ bcalls = <<>>
    /\ bstate = "building"
    /\ exec = NoExec

NextConfig ==
    \/ SetRlimit \/ file_descriptor \/ file_descriptor_raw \/ close_fds \/ reset_fds
    \/ pivot_root \/ SpawnConfig

SpecConfig == InitBuilder /\ [][NextConfig]_vars

(* ------------------------------------------------------------------ *)
(* The Command builder: arguments and environment, up to execve        *)
(* ------------------------------------------------------------------ *)

\* The program InitBuilder passes to Command::new: "/x"
Program == <<47, 120>>

\* Byte strings passed as arguments: "a" and one with an interior NUL.
ArgStrings == {<<97>>, <<97, 0, 98>>}
ArgLists == {<< <<97>>, <<98>> >>, << <<98>>, <<0>>, <<97>> >>}
EnvKeys == {<<75>>, <<76>>}
EnvValues == {<<49>>, <<50>>, <<0>>}

\* The environments the calling process may have: env::vars_os().
OsEnvs == { {<<(<<75>>), (<<49>>)>>}, {<<(<<75>>), (<<50>>)>>, <<(<<76>>), (<<49>>)>>} }

\* std::env::set_var / remove_var in the calling process between two calls.
SetEnv ==
    /\ bstate = "building"
    /\ \E e \in OsEnvs \ {osenv.vars} : osenv' = [osenv EXCEPT !.vars = e]
    /\ UNCHANGED <<builder, bcalls, bstate, exec>>
    /\ BuilderOnly

\* Command::arg(arg)
arg ==
    \E a \in ArgStrings :
        BuilderCall("arg", a, 0, HasNul(a),
                    IF HasNul(a) THEN builder
                    ELSE [builder EXCEPT !.args = Append(@, ToCString(a))])

\* The elements Vec::extend pushed before to_cstring panicked (all of them
\* when none panics).
RECURSIVE Converted(_)
Converted(list) ==
    IF list = <<>> \/ HasNul(Head(list)) THEN <<>>
    ELSE <<ToCString(Head(list))>> \o Converted(Tail(list))

\* Command::args(args)
args ==
    \E l \in ArgLists :
        BuilderCall("args", l, 0, \E i \in 1..Len(l) : HasNul(l[i]),
                    [builder EXCEPT !.args = @ \o Converted(l)])

\* An arg0 that puts the name in front of the vector.
PushArg0(vec, c) == <<c>> \o vec

\* self.args[0] = arg.to_cstring()
SetArg0(vec, c) == [vec EXCEPT ![1] = c]

\* Command::arg0(arg)
arg0 ==
    \E a \in {<<122>>, <<0>>} :
        BuilderCall("arg0", a, 0, HasNul(a),
                    IF HasNul(a) THEN builder
                    ELSE [builder EXCEPT !.args = SetArg0(@, ToCString(a))])

\* An init_env_map that captures the process environment at every call.
AlwaysCapture(environ, os) == [some |-> TRUE, map |-> os]

\* Command::init_env_map
init_env_map(environ, os) ==
    IF environ.some THEN environ ELSE [some |-> TRUE, map |-> os]

\* HashMap::remove(key)
Remove(map, key) == {e \in map : e[1] # key}

\* Command::env(key, val)
env ==
    \E k \in EnvKeys, v \in EnvValues :
        BuilderCall("env", k, v, FALSE,
                    [builder EXCEPT !.environ =
                        [some |-> TRUE,
                         map |-> Insert(init_env_map(@, osenv.vars).map, k, v)]])

\* Command::env_remove(key)
env_remove ==
    \E k \in EnvKeys :
        BuilderCall("env_remove", k, 0, FALSE,
                    [builder EXCEPT !.environ =
                        [some |-> TRUE,
                         map |-> Remove(init_env_map(@, osenv.vars).map, k)]])

\* Command::env_clear
env_clear ==
    BuilderCall("env_clear", 0, 0, FALSE,
                [builder EXCEPT !.environ = [some |-> TRUE, map |-> {}]])

\* Command::env_var_with_pid(key)
env_var_with_pid ==
    \E k \in EnvKeys :
        BuilderCall("env_var_with_pid", k, 0, FALSE,
                    [builder EXCEPT
                        !.environ = [some |-> TRUE,
                                     map |-> Remove(init_env_map(@, osenv.vars).map, k)],
                        !.pid_env_vars = @ \cup {k}])

\* The orders in which a hash map or hash set may be iterated.
Orders(S) ==
    {f \in [1..Cardinality(S) -> S] : \A i, j \in 1..Cardinality(S) : f[i] = f[j] => i = j}

\* raw_with_null: the pointers to the strings, then a null pointer.
NullPtr == <<>>
raw_with_null(arr) == Append(arr, NullPtr)

\* pair = k; pair.push(b'='); pair.extend(v)
Pair(k, v) == k \o <<61>> \o v

\* Digits a pid takes at most in its slot.
MAX_PID_LEN == 12

\* The environ entry reserved for a pid variable: the name, '=' and a slot
\* of MAX_PID_LEN digits.
PidSlot(k) == Pair(k, Repeat(48, MAX_PID_LEN))

\* The (environ_index, byte_offset_into_value) pairs of the pid variables,
\* whose entries follow "base" entries of the map.
SlotRefs(names, base) == {<<base + i, Len(names[i]) + 1>> : i \in 1..Len(names)}

\* Command::spawn: init_env_map, then c_args and environ of spawn_inner,
\* then the entries and (index, offset) pairs of the pid variables.
\* CString::new(pair).unwrap() panics on a NUL in a name or value.
Spawn ==
    /\ bstate = "building"
    /\ LET environ == init_env_map(builder.environ, osenv.vars)
       IN  /\ builder' = [builder EXCEPT !.environ = environ]
           /\ \E pairs \in Orders(environ.map), names \in Orders(builder.pid_env_vars) :
                LET strings == [i \in 1..Len(pairs) |-> Pair(pairs[i][1], pairs[i][2])]
                    slots == [i \in 1..Len(names) |-> PidSlot(names[i])]
                    all == strings \o slots
                IN  IF \E i \in 1..Len(all) : HasNul(all[i])
                    THEN /\ bstate' = "panicked"
                         /\ UNCHANGED exec
                    ELSE /\ bstate' = "spawned"
                         /\ exec' = [NoExec EXCEPT
                                !.filename = builder.filename,
                                !.argv = raw_with_null(builder.args),
                                !.envp = raw_with_null(
                                            [i \in 1..Len(all) |-> ToCString(all[i])]),
                                !.slots = SlotRefs(names, Len(strings))]
    /\ UNCHANGED <<osenv, bcalls>>
    /\ BuilderOnly

\* A format_pid_fixed that fills the whole buffer with digits.
RECURSIVE PadDigits(_, _)
PadDigits(pid, width) ==
    IF width = 0 THEN <<>> ELSE PadDigits(pid \div 10, width - 1) \o <<48 + (pid % 10)>>

FormatPidPadded(pid) == PadDigits(pid, MAX_PID_LEN) \o <<0>>

\* unreachable!("can't format pid")
Unreachable == <<-1>>

\* A loop that returns the slice one byte before the first digit.
RECURSIVE FormatLoopOneByteEarly(_, _, _)
FormatLoopOneByteEarly(buf, tmp, n) ==
    IF n < 0 THEN Unreachable
    ELSE LET b == [buf EXCEPT ![n + 1] = (tmp % 10) + 48]
         IN  IF tmp \div 10 = 0 THEN SubSeq(b, IF n > 0 THEN n ELSE 1, Len(b))
             ELSE FormatLoopOneByteEarly(b, tmp \div 10, n - 1)

\* "for n in (0..buf.len()-1).rev()": buf[n] = (tmp % 10) as u8 + b'0';
\* tmp /= 10; if tmp == 0 { return &buf[n..] }. n counts from 0.
RECURSIVE FormatLoop(_, _, _)
FormatLoop(buf, tmp, n) ==
    IF n < 0 THEN Unreachable
    ELSE LET b == [buf EXCEPT ![n + 1] = (tmp % 10) + 48]
         IN  IF tmp \div 10 = 0 THEN SubSeq(b, n + 1, Len(b))
             ELSE FormatLoop(b, tmp \div 10, n - 1)

\* format_pid_fixed(buf, pid) on a zeroed buffer of len bytes
FormatInto(len, pid) ==
    LET buf == [i \in 1..len |-> 0]
    IN  IF pid = 0 THEN SubSeq([buf EXCEPT ![len - 1] = 48], len - 1, len)
        ELSE FormatLoop(buf, pid, len - 2)

\* format_pid_fixed(&mut buf, pid) with buf of MAX_PID_LEN + 1 bytes
format_pid_fixed(pid) == FormatInto(MAX_PID_LEN + 1, pid)

\* ptr.offset(offset).copy_from(data, data.len()) on a byte string
CopyAt(bytes, offset, data) ==
    [i \in 1..Len(bytes) |->
        IF i > offset /\ i <= offset + Len(data) THEN data[i - offset] ELSE bytes[i]]

\* What getpid() may return in the child.
Pids == {1, 4194304}

\* The child: the pid is copied into every recorded slot, then execve is
\* called with child.filename, child.args and child.environ.
ChildExec ==
    /\ bstate = "spawned"
    /\ \E pid \in Pids :
        LET data == format_pid_fixed(pid)
        IN  exec' = [exec EXCEPT
                !.pid = pid,
                !.envp = [i \in 1..Len(@) |->
                            IF \E sl \in exec.slots : sl[1] = i
                            THEN CopyAt(@[i], (CHOOSE sl \in exec.slots : sl[1] = i)[2], data)
                            ELSE @[i]]]
    /\ bstate' = "execd"
    /\ UNCHANGED <<builder, osenv, bcalls>>
    /\ BuilderOnly

InitArgs ==
    /\ ApiIdle
    /\ SpawnStart({DefaultCommand})
    /\ conc = NoSpawns
    /\ wire = NoWire
    /\ fmt = NoFormat
    /\ builder = New(Program)
    /\ osenv \in {[vars |-> e, rlimit |-> RlimitNofile] : e \in OsEnvs}
    /\ bcalls = <<>>
    /\ bstate = "building"
    /\ exec = NoExec

NextArgs ==
    \/ SetEnv \/ arg \/ args \/ arg0 \/ env \/ env_remove \/ env_clear
    \/ env_var_with_pid \/ Spawn \/ ChildExec

SpecArgs == InitArgs /\ [][NextArgs]_vars

(* ------------------------------------------------------------------ *)
(* Spawns in several threads of one parent                             *)
(* ------------------------------------------------------------------ *)

ConcOnly ==
    UNCHANGED <<handleVars, builderVars, haux, wire, fmt, cmd, pfds, pipes, plan, ppc, perr, result,
                child, cstatus, cpc, cfds, ccloexec, epipe, capplied, wbytes, ebuf, stray,
                cfail, clog, plog, eintr>>

\* The four pipe ends spawn_inner of thread t creates.
EndsOf(t) == {<<t, "wakeup_rd">>, <<t, "wakeup">>, <<t, "errpipe">>, <<t, "errpipe_wr">>}

\* Some process holds the pipe end: the parent or a child that has neither
\* called execve nor exited (every end is O_CLOEXEC).
Held(end) == end \in conc.pfd \/ \E u \in Threads : end \in conc.kfd[u]

\* Pipe::new() twice in thread t; the descriptor table is the parent's, the
\* same for all its threads.
ThreadPipes(t) ==
    /\ conc.tpc[t] = "start"
    /\ conc' = [conc EXCEPT !.tpc[t] = "clone", !.pfd = @ \cup EndsOf(t)]
    /\ ConcOnly

\* clone in thread t: the child gets a copy of the whole descriptor table;
\* then drop(wakeup_rd); drop(errpipe_wr) in the parent.
ThreadClone(t) ==
    /\ conc.tpc[t] = "clone"
    /\ conc' = [conc EXCEPT !.tpc[t] = "wakeup_write",
                            !.kpc[t] = "entry",
                            !.kfd[t] = conc.pfd,
                            !.pfd = @ \ {<<t, "wakeup_rd">>, <<t, "errpipe_wr">>}]
    /\ ConcOnly

\* after_start returned Err in thread t: its pipe ends are dropped, the
\* child is killed and reaped, spawn returns Err.
ThreadFail(t, c) ==
    [c EXCEPT !.tpc[t] = "returned", !.res[t] = "Err",
              !.pfd = @ \ {<<t, "wakeup">>, <<t, "errpipe">>},
              !.kpc[t] = IF @ = "execd" THEN "execd" ELSE "exited",
              !.kfd[t] = {}]

\* wakeup.write_all(b"x") in thread t
ThreadWakeupWrite(t) ==
    /\ conc.tpc[t] = "wakeup_write"
    /\ conc' = IF \E u \in Threads : <<t, "wakeup_rd">> \in conc.kfd[u]
               THEN [conc EXCEPT !.tpc[t] = "err_read", !.wake[t] = @ + 1]
               ELSE ThreadFail(t, conc)
    /\ ConcOnly

\* read on thread t's error pipe returns: there are bytes, or no process
\* holds a write end.
ErrReadReady(t) == conc.err[t] > 0 \/ ~Held(<<t, "errpipe_wr">>)

\* errpipe.read(&mut err) in thread t, which blocks until it can return
ThreadErrRead(t) ==
    /\ conc.tpc[t] = "err_read"
    /\ ErrReadReady(t)
    /\ conc' = IF conc.err[t] = 0
               THEN [conc EXCEPT !.tpc[t] = "returned", !.res[t] = "Ok",
                                 !.pfd = @ \ {<<t, "wakeup">>, <<t, "errpipe">>}]
               ELSE ThreadFail(t, [conc EXCEPT !.err[t] = 0])
    /\ ConcOnly

\* close(wakeup.take().unwrap().into_fd()) in the child of thread t
KidEntry(t) ==
    /\ conc.kpc[t] = "entry"
    /\ conc' = [conc EXCEPT !.kpc[t] = "wakeup", !.kfd[t] = @ \ {<<t, "wakeup">>}]
    /\ ConcOnly

\* read on thread t's wake-up pipe returns: there is a byte, or no process
\* holds a write end.
WakeupReady(t) == conc.wake[t] > 0 \/ ~Held(<<t, "wakeup">>)

\* The wake-up read of the child of thread t: it goes on with the byte, and
\* kills itself at end-of-file (death_sig is set by default).
KidWakeupRead(t) ==
    /\ conc.kpc[t] = "wakeup"
    /\ WakeupReady(t)
    /\ conc' = IF conc.wake[t] > 0
               THEN [conc EXCEPT !.kpc[t] = "setup", !.wake[t] = @ - 1]
               ELSE [conc EXCEPT !.kpc[t] = "exited", !.kfd[t] = {}]
    /\ ConcOnly

\* A step of the child of thread t fails: fail_errno writes five bytes.
KidFail(t) ==
    /\ conc.kpc[t] = "setup"
    /\ conc' = [conc EXCEPT !.kpc[t] = "exited", !.kfd[t] = {}, !.err[t] = @ + 5]
    /\ ConcOnly

\* execve in the child of thread t closes every O_CLOEXEC descriptor.
KidExecve(t) ==
    /\ conc.kpc[t] = "setup"
    /\ conc' = [conc EXCEPT !.kpc[t] = "execd", !.kfd[t] = {}]
    /\ ConcOnly

InitConc ==
    /\ ApiIdle
    /\ BuilderIdle
    /\ SpawnStart({DefaultCommand})

NextConc ==
    \E t \in Threads :
        \/ ThreadPipes(t) \/ ThreadClone(t) \/ ThreadWakeupWrite(t) \/ ThreadErrRead(t)
        \/ KidEntry(t) \/ KidWakeupRead(t) \/ KidFail(t) \/ KidExecve(t)

SpecConc == InitConc /\ [][NextConc]_vars

(* ------------------------------------------------------------------ *)
(* One error frame from fail_errno to after_start                      *)
(* ------------------------------------------------------------------ *)

\* i32 values with every byte position exercised, both signs, both ends
FrameErrnos ==
    {-2147483647 - 1, -16777217, -65536, -256, -2, -1, 0, 1, 2, 255, 256, 65535,
     16777216, NoOsErrorSentinel, 2147483647}

FrameOnly ==
    UNCHANGED <<handleVars, builderVars, haux, conc, fmt, cmd, pfds, pipes, plan, ppc, perr, result,
                child, cstatus, cpc, cfds, ccloexec, epipe, capplied, wbytes, ebuf, stray,
                cfail, clog, plog, eintr>>

\* fail_errno: libc::write(output, bytes.as_ptr(), 5)
FrameWrite ==
    /\ wire.pc = "failing"
    /\ wire' = [wire EXCEPT !.pc = "written", !.bytes = Frame(wire.code, wire.errno)]
    /\ FrameOnly

\* after_start: errpipe.read(&mut err) returns the frame, and the match decodes it
FrameRead ==
    /\ wire.pc = "written"
    /\ wire' = [wire EXCEPT !.pc = "decoded", !.res = DecodeRead(Len(wire.bytes), wire.bytes)]
    /\ FrameOnly

\* Nothing but one frame is in flight; it is drawn from `inputs`.
InitWire(inputs) ==
    /\ ApiIdle
    /\ conc = NoSpawns
    /\ builder = New(<<>>)
    /\ osenv = [vars |-> {}, rlimit |-> RlimitNofile]
    /\ bcalls = <<>>
    /\ bstate = "idle"
    /\ exec = NoExec
    /\ SpawnStart({DefaultCommand})
    /\ fmt = NoFormat
    /\ wire \in inputs

InitFrame ==
    InitWire({[NoWire EXCEPT !.pc = "failing", !.code = code, !.errno = errno] :
                code \in ErrorCodes, errno \in FrameErrnos})

NextFrame == FrameWrite \/ FrameRead

SpecFrame == InitFrame /\ [][NextFrame]_vars

\* let mut err = [0u8; 6]
ErrBufLen == 6

\* byte values: below, at both ends of, and above the codes of ErrorCode
ReadBytes == {0, CreatePipe, CapSet, PreExec, 255}

\* what one errpipe.read(&mut err) can leave in err
ReadInputs ==
    UNION {[1..n -> ReadBytes] : n \in 0..ErrBufLen}

\* spawn_inner: "if let Err(e) = self.after_start(..) { kill; waitpid; return Err(e) }",
\* else Ok(Child { .. })
FrameReturn ==
    /\ wire.pc = "decoded"
    /\ wire' = [wire EXCEPT !.pc = IF wire.res.tag = "Ok" THEN "returned Ok" ELSE "returned Err"]
    /\ FrameOnly

InitRead == InitWire({[NoWire EXCEPT !.pc = "written", !.bytes = b] : b \in ReadInputs})

NextRead == FrameRead \/ FrameReturn

SpecRead == InitRead /\ [][NextRead]_vars

(* ------------------------------------------------------------------ *)
(* One call of format_pid_fixed                                        *)
(* ------------------------------------------------------------------ *)

\* pid_t values from 0: the small ones, both sides of every power of ten,
\* the largest pid of Linux and the largest i32
PidInputs ==
    (0..40)
        \cup UNION {{10^k - 1, 10^k, 10^k + 1} : k \in 2..9}
        \cup {4194304, 2147483646, 2147483647}

FormatOnly ==
    UNCHANGED <<handleVars, builderVars, haux, conc, wire, cmd, pfds, pipes, plan, ppc, perr,
                result, child, cstatus, cpc, cfds, ccloexec, epipe, capplied, wbytes, ebuf,
                stray, cfail, clog, plog, eintr>>

\* let data = format_pid_fixed(&mut buf, libc::getpid())
FormatPid ==
    /\ fmt.pc = "called"
    /\ fmt' = [fmt EXCEPT !.pc = "returned", !.out = format_pid_fixed(fmt.pid)]
    /\ FormatOnly

InitPid ==
    /\ ApiIdle
    /\ conc = NoSpawns
    /\ wire = NoWire
    /\ builder = New(<<>>)
    /\ osenv = [vars |-> {}, rlimit |-> RlimitNofile]
    /\ bcalls = <<>>
    /\ bstate = "idle"
    /\ exec = NoExec
    /\ SpawnStart({DefaultCommand})
    /\ fmt \in {[NoFormat EXCEPT !.pc = "called", !.pid = pid] : pid \in PidInputs}

NextPid == FormatPid

SpecPid == InitPid /\ [][NextPid]_vars

(* ------------------------------------------------------------------ *)
(* Properties                                                          *)
(* ------------------------------------------------------------------ *)

Range(s) == {s[i] : i \in 1..Len(s)}
Count(s, x) == Cardinality({i \in 1..Len(s) : s[i] = x})
Returned == ppc = "returned"
CloneSucceeded == child # "none"

\* The error kind assigned to the step that reports `code`.
StepKind(code) == IF code \in ErrorCodes THEN KindName[code] ELSE "PreExec"

\* C1: when a step of the child after the wake-up read failed with errno e
\* and reported one of the codes of ErrorCode, and the parent read the error
\* pipe without being interrupted, spawn returns Err with the kind of that
\* step and e.
ChildFailureReported ==
    (Returned /\ cfail.code \in ErrorCodes \ {PipeError}
              /\ "errpipe_read" \in Range(plog) /\ eintr = 0)
        => result = ErrResult(StepKind(cfail.code), cfail.errno)

\* C2: when spawn returns Err after clone succeeded, SIGKILL has been sent
\* to the child and waitpid has reaped it: no zombie of the child remains.
ErrAfterCloneReaped ==
    (Returned /\ result.tag = "Err" /\ CloneSucceeded)
        => (child = "reaped" /\ "kill" \in Range(plog))

\* spawn returned Err for a child that was killed, after a waitpid that was
\* interrupted and retried.
ErrAfterCloneReapedWitness ==
    /\ Returned
    /\ result.tag = "Err"
    /\ child = "reaped"
    /\ cstatus = "killed"
    /\ Count(plog, "waitpid") = 2

\* C3: spawn returns Ok only if the child has performed execve with success
\* (stated for the spawns in which the wake-up read of the child did not fail).
OkImpliesExecve ==
    (Returned /\ result.tag = "Ok" /\ cfail.code # PipeError) => child = "execd"

\* The calls the child logs before it leaves the wake-up loop.
PreWakeupCalls == {"prctl_pdeathsig", "kill_self"}

\* C4: the child performs no step after the wake-up read before the parent
\* has written the wake-up byte or closed the write end of the wake-up pipe,
\* and the child can always take its next step except at the wake-up read.
WakeupGate ==
    /\ (Range(clog) \ PreWakeupCalls # {} \/ cpc \in {"uid_map", "execd"})
            => (("wakeup_write" \in Range(plog)) \/ FdsOf(pfds, WakeupW) = {})
    /\ (child = "running" /\ cpc # "wakeup") => ENABLED ChildNext

\* The child went through the wake-up read and reached execve after the
\* parent wrote the byte.
WakeupGateWitness ==
    /\ "wakeup_read" \in Range(clog)
    /\ "execve" \in Range(clog)
    /\ "wakeup_write" \in Range(plog)
    /\ wbytes = 0

\* C5: with a before_unfreeze callback registered, the callback has been
\* invoked exactly once by the time the parent writes the wake-up byte.
BeforeUnfreezeInvoked ==
    (cmd.before_unfreeze /\ "wakeup_write" \in Range(plog))
        => Count(plog, "before_unfreeze") = 1

\* C6: the pre_exec callback never runs before the before_unfreeze callback
\* of the parent has returned, and it runs at most once, as the last step
\* of the child before execve.
PreExecAfterBeforeUnfreeze ==
    /\ Count(clog, "pre_exec") <= 1
    /\ ("pre_exec" \in Range(clog) /\ cmd.before_unfreeze)
            => "before_unfreeze" \in Range(plog)

\* C7: when pre_exec returned an error, the child calls no execve and spawn
\* returns the PreExec error with the code of the callback (or the sentinel).
PreExecErrorReported ==
    (cfail.code = PreExec /\ Len(cmd.close_fds) = 0)
        => /\ "execve" \notin Range(clog)
           /\ (Returned /\ eintr = 0) => result = ErrResult("PreExec", cfail.errno)

\* The file the caller meant target t to be in the child.
Intended(t) ==
    LET intent == IntentOf(cmd.fds, t)
    IN  CASE intent[1] = "ReadPipe" -> <<"pipe_r", t>>
          [] intent[1] = "WritePipe" -> <<"pipe_w", t>>
          [] intent[1] = "ReadNull" -> <<"null_r", t>>
          [] intent[1] = "WriteNull" -> <<"null_w", t>>
          [] intent[1] = "Inherit" -> OpenTable(cmd.nopen)[t]
          [] OTHER -> OpenTable(cmd.nopen)[intent[2]]

PlanApplied == cpc \in {"close_fds", "sigmask", "pre_exec", "execve"}

\* C8: a finished plan has no entry whose source differs from its target
\* and is a target of the plan, and once the child has applied the plan, in
\* whatever order, every target is the file the caller meant it to be.
NonClobber ==
    /\ (ppc \notin {"start", "prepare"} /\ CloneSucceeded)
            => \A e \in plan.inner : e[2] # e[1] => e[2] \notin Keys(cmd.fds)
    /\ (child = "running" /\ cpc = "close_fds")
            => \A t \in Keys(cmd.fds) : Intended(t) # NoFile => cfds[t] = Intended(t)

\* The child applied the swap {3 -> 4, 4 -> 3} of two open files.
NonClobberWitness ==
    /\ child = "running"
    /\ cpc = "close_fds"
    /\ {<<3, FdOf(4)>>, <<4, FdOf(3)>>} \subseteq cmd.fds
    /\ cfds[3] = UserFile(4)
    /\ cfds[4] = UserFile(3)

InCloseRange(fd) ==
    \E i \in 1..Len(cmd.close_fds) :
        cmd.close_fds[i][1] <= fd /\ fd < cmd.close_fds[i][2]

ErrorPipeSurvivesCloseFds ==
    (child = "running" /\ cpc \in {"sigmask", "pre_exec", "execve"} /\ cmd.fds = StdioFds)
        => cfds[epipe] = ErrW


\* The calls of the child that come after the wake-up loop.
PostWakeupCalls == Range(clog) \ (PreWakeupCalls \cup {"wakeup_read", "wakeup_eof"})

\* C11 as stated: on end-of-file with death_sig set the child signals itself
\* and exits with status 127.
SelfKillExits127 == "kill_self" \in Range(clog) => cstatus = "exit127"

\* C11, amended: on end-of-file of the wake-up read, with death_sig set the
\* child sends the signal to itself and terminates (by the signal, or by
\* _exit(127) when the signal does not end it) without any later step or
\* execve; with death_sig unset it goes on with the remaining steps.
WakeupEof ==
    /\ "kill_self" \in Range(clog)
            => /\ cmd.death_sig
               /\ child \in {"zombie", "reaped"}
               /\ cstatus \in {"selfkill", "exit127"}
               /\ cpc = "exited"
               /\ PostWakeupCalls = {}
               /\ "wakeup_eof" \notin Range(clog)
    /\ "wakeup_eof" \in Range(clog)
            => /\ ~cmd.death_sig
               /\ "kill_self" \notin Range(clog)
               /\ cpc \notin {"entry", "pdeathsig", "wakeup"}
               /\ (child = "running" => ENABLED ChildNext)
    /\ (cmd.death_sig /\ PostWakeupCalls # {}) => "wakeup_read" \in Range(clog)

\* The parent failed before the wake-up write and closed the pipe; the child
\* read end-of-file and killed itself.
WakeupEofWitness ==
    /\ "kill_self" \in Range(clog)
    /\ "wakeup_write" \notin Range(plog)
    /\ cstatus = "selfkill"
    /\ perr.tag = "Err"

\* The positions of the calls of one kind in the handle's history.
CallsOf(names) == {i \in 1..Len(hcalls) : hcalls[i].call \in names}

OkWaits == {i \in CallsOf({"wait"}) : hcalls[i].tag = "Ok"}

\* C12: once a wait returned Ok(s), every later wait returns Ok(s) without
\* a waitpid call; a wait that returned an error left the cached status
\* empty, and the cache holds exactly what the first successful wait returned.
WaitIdempotent ==
    /\ \A i \in OkWaits : \A j \in CallsOf({"wait"}) :
            j > i => /\ hcalls[j].tag = "Ok"
                     /\ hcalls[j].status = hcalls[i].status
                     /\ hcalls[j].sys = <<>>
    /\ \A i \in OkWaits : handle.status = hcalls[i].status
    /\ OkWaits = {} => handle.status = NoStatus

\* A wait that reaped an exit code above 127, then a second wait.
WaitIdempotentWitness ==
    /\ Len(hcalls) >= 2
    /\ hcalls[1].call = "wait" /\ hcalls[1].tag = "Ok" /\ hcalls[1].sys # <<>>
    /\ hcalls[1].status = <<"Exited", -1>>
    /\ hcalls[2].call = "wait" /\ hcalls[2].sys = <<>>

\* C13: a signal or kill call made after a wait of this handle succeeded
\* fails with InvalidInput and issues no kill syscall; one made before
\* issues exactly one kill syscall, and kill passes SIGKILL.
NoSignalAfterReap ==
    \A j \in CallsOf({"signal", "kill"}) :
        /\ hcalls[j].call = "kill" => hcalls[j].arg = SIGKILL
        /\ IF \E i \in OkWaits : i < j
           THEN /\ hcalls[j].tag = "Err"
                /\ hcalls[j].status = <<"InvalidInput", 0>>
                /\ hcalls[j].sys = <<>>
           ELSE hcalls[j].sys = <<"kill">>

\* A signal that ended the process, the wait that reaped it, a refused kill.
NoSignalAfterReapWitness ==
    /\ Len(hcalls) = 3
    /\ hcalls[1].call = "signal" /\ hcalls[1].tag = "Ok" /\ hcalls[1].sys = <<"kill">>
    /\ hcalls[2].call = "wait" /\ hcalls[2].status = <<"Signaled", SIGUSR1>>
    /\ hcalls[3].call = "kill" /\ hcalls[3].tag = "Err" /\ hcalls[3].sys = <<>>
    /\ proc.state = "reaped"

\* The kind of holder a take call asks for.
KindAsked(call) == IF call.call = "take_pipe_reader" THEN "Reader" ELSE "Writer"

\* C14: the first take call of the matching kind for a descriptor returns
\* the holder the planner stored for it; every later take call for it, every
\* call of the wrong kind and every call for a descriptor without a holder
\* returns None.
TakePipeContract ==
    \A j \in CallsOf({"take_pipe_reader", "take_pipe_writer"}) :
        LET h == HolderAt(NewChild(plan.outer).fds, hcalls[j].arg)
            taken == \E i \in 1..(j - 1) :
                        /\ hcalls[i].call = hcalls[j].call
                        /\ hcalls[i].arg = hcalls[j].arg
        IN  IF h[2] = KindAsked(hcalls[j]) /\ ~taken
            THEN hcalls[j].tag = "Some" /\ hcalls[j].holder = h
            ELSE hcalls[j].tag = "None"

\* a is a component-wise prefix of b
IsPrefix(a, b) == Len(a) <= Len(b) /\ \A i \in 1..Len(a) : a[i] = b[i]

PivotAllowed(new_root, put_old) ==
    IsAbsolute(new_root) /\ IsAbsolute(put_old) /\ IsPrefix(new_root, put_old)

\* C15: pivot_root panics, leaving the Command as it was, exactly when a
\* path is not absolute or new_root is no component-wise prefix of put_old;
\* a stored triple has both paths absolute and new_root a prefix of put_old.
PivotRootChecked ==
    /\ \A i \in 1..Len(bcalls) :
            bcalls[i].call = "pivot_root"
                => (bcalls[i].panic <=> ~PivotAllowed(bcalls[i].a, bcalls[i].b))
    /\ builder.pivot_root # NoPivot
            => PivotAllowed(builder.pivot_root[1], builder.pivot_root[2])

\* The builder calls since the last reset_fds that returned.
RECURSIVE SinceReset(_)
SinceReset(n) ==
    IF n = 0 \/ bcalls[n].call = "reset_fds" THEN <<>>
    ELSE SinceReset(n - 1) \o (IF bcalls[n].panic THEN <<>> ELSE <<bcalls[n]>>)

\* The range a close_fds call stores, by the form of its argument.
RangeStored(call) ==
    CASE call.a[1] = "Range" -> <<call.a[2], call.a[3]>>
      [] call.a[1] = "RangeTo" -> <<3, call.a[3]>>
      [] call.a[1] = "RangeFrom" -> <<call.a[2], call.os.rlimit>>
      [] call.a[1] = "RangeFull" -> <<3, call.os.rlimit>>

RECURSIVE RangesStored(_)
RangesStored(calls) ==
    IF calls = <<>> THEN <<>>
    ELSE (IF Head(calls).call = "close_fds" THEN <<RangeStored(Head(calls))>> ELSE <<>>)
         \o RangesStored(Tail(calls))

\* C16: every stored close range starts at 3 or above; the stored list is
\* what the close_fds calls since the last reset_fds that returned gave,
\* "..N" as (3, N), "N.." and ".." with the limit the process had at the
\* call; a call with a lower bound below 3 panics and adds nothing.
CloseRangesStored ==
    /\ \A i \in 1..Len(builder.close_fds) : builder.close_fds[i][1] >= 3
    /\ builder.close_fds = RangesStored(SinceReset(Len(bcalls)))
    /\ \A i \in 1..Len(bcalls) :
            (bcalls[i].call = "close_fds" /\ bcalls[i].a[1] \in {"Range", "RangeFrom"}
                /\ bcalls[i].a[2] < 3) => bcalls[i].panic

\* "4.." called under one limit and ".." under another, both stored; then
\* a call with lower bound 2 panicked.
CloseRangesStoredWitness ==
    /\ Len(bcalls) = 3
    /\ builder.close_fds = << <<4, RlimitNofile>>, <<3, RlimitNofile - 4>> >>
    /\ bcalls[3].call = "close_fds" /\ bcalls[3].a = <<"Range", 2, 5>>
    /\ bstate = "panicked"

\* fd lies in a range stored in the Command
InStoredRange(fd) ==
    \E i \in 1..Len(builder.close_fds) :
        builder.close_fds[i][1] <= fd /\ fd < builder.close_fds[i][2]

\* C17: no range stored in close_fds contains a target of the fds map.
RangesAvoidTargets == \A fd \in Keys(builder.fds) : ~InStoredRange(fd)

\* C17 (amended): a stored range may contain targets of the fds map, but
\* the child's loop over the ranges closes no target: it closes exactly the
\* descriptors of the stored ranges that are no target.
RangesSkipTargets ==
    bstate = "spawned"
        => /\ exec.closed \cap Keys(builder.fds) = {}
           /\ \A fd \in FDS \ Keys(builder.fds) : fd \in exec.closed <=> InStoredRange(fd)

\* Targets 4 and 5 inside the stored range 3..6: only 3 is closed.
RangesSkipTargetsWitness ==
    /\ bstate = "spawned"
    /\ builder.close_fds = << <<3, 6>> >>
    /\ {4, 5} \subseteq Keys(builder.fds)
    /\ exec.closed = {3}

\* The bytes of a C string: those before its first NUL.
RECURSIVE Content(_)
Content(c) == IF c = <<>> \/ Head(c) = 0 THEN <<>> ELSE <<Head(c)>> \o Content(Tail(c))

\* The builder calls that returned.
ReturnedCalls == SelectSeq(bcalls, LAMBDA c : ~c.panic)

\* The arguments the arg and args calls appended, in call order.
RECURSIVE Appended(_)
Appended(calls) ==
    IF calls = <<>> THEN <<>>
    ELSE (CASE Head(calls).call = "arg" -> <<Head(calls).a>>
            [] Head(calls).call = "args" -> Head(calls).a
            [] OTHER -> <<>>)
         \o Appended(Tail(calls))

\* The argument of the last arg0 call, the program when there is none.
RECURSIVE LastArg0(_)
LastArg0(calls) ==
    IF calls = <<>> THEN Program
    ELSE IF calls[Len(calls)].call = "arg0" THEN calls[Len(calls)].a
    ELSE LastArg0(SubSeq(calls, 1, Len(calls) - 1))

\* C18: args is never empty and filename stays what Command::new was
\* given; after calls that returned, args[0] is the argument of the last
\* arg0 call (the program if there was none) and the rest of args are the
\* appended arguments in call order, each a NUL-terminated copy; execve
\* gets that filename and that vector, closed by a null pointer.
ArgvContract ==
    /\ Len(builder.args) >= 1
    /\ builder.filename = Program \o <<0>>
    /\ bstate # "panicked" =>
        LET want == <<LastArg0(ReturnedCalls)>> \o Appended(ReturnedCalls)
        IN  /\ Len(builder.args) = Len(want)
            /\ \A i \in 1..Len(want) :
                    /\ Content(builder.args[i]) = want[i]
                    /\ builder.args[i] = want[i] \o <<0>>
    /\ bstate \in {"spawned", "execd"} =>
            /\ exec.filename = builder.filename
            /\ exec.argv = builder.args \o <<NullPtr>>

\* arg0("z"), arg("a"), args(["a", "b"]), then execve.
ArgvContractWitness ==
    /\ bstate = "execd"
    /\ Len(bcalls) = 3
    /\ bcalls[1].call = "arg0" /\ bcalls[2].call = "arg" /\ bcalls[3].call = "args"
    /\ exec.argv = << <<122, 0>>, <<97, 0>>, <<97, 0>>, <<98, 0>>, NullPtr >>
    /\ exec.filename = <<47, 120, 0>>

\* The map a sequence of env, env_remove and env_var_with_pid calls makes
\* of a starting map.
RECURSIVE Applied(_, _)
Applied(calls, map) ==
    IF calls = <<>> THEN map
    ELSE LET c == Head(calls)
         IN  Applied(Tail(calls),
                CASE c.call = "env" -> {e \in map : e[1] # c.a} \cup {<<c.a, c.b>>}
                  [] c.call \in {"env_remove", "env_var_with_pid"} ->
                        {e \in map : e[1] # c.a}
                  [] OTHER -> map)

\* The environment the calls describe: empty at the last env_clear, else
\* the process environment seen by the first call that needs the map, or
\* the one at spawn when no call needed it; then the calls that follow.
ExpectedEnv ==
    LET calls == ReturnedCalls
        clears == {i \in 1..Len(calls) : calls[i].call = "env_clear"}
        needing == {i \in 1..Len(calls) :
                        calls[i].call \in {"env", "env_remove", "env_var_with_pid"}}
        first == CHOOSE i \in needing : \A j \in needing : i <= j
        last == CHOOSE i \in clears : \A j \in clears : j <= i
    IN  IF clears # {} THEN Applied(SubSeq(calls, last + 1, Len(calls)), {})
        ELSE IF needing # {} THEN Applied(calls, calls[first].os.vars)
        ELSE osenv.vars

\* The entries of envp that are no pid slot.
PlainEntries == {i \in 1..(Len(exec.envp) - 1) : \A sl \in exec.slots : sl[1] # i}

\* C19: the environment passed to execve is, one "k=v" string per pair,
\* the map the env, env_remove and env_clear calls describe: it starts from
\* the environment inherited at the first call that needs the map (at spawn
\* if there is none) and from the empty map after an env_clear.
EnvRoundTrip ==
    bstate \in {"spawned", "execd"} =>
        /\ exec.envp[Len(exec.envp)] = NullPtr
        /\ builder.environ = [some |-> TRUE, map |-> ExpectedEnv]
        /\ Cardinality(PlainEntries) = Cardinality(ExpectedEnv)
        /\ \A e \in ExpectedEnv : \E i \in PlainEntries :
                /\ Content(exec.envp[i]) = e[1] \o <<61>> \o e[2]
                /\ exec.envp[i] = Content(exec.envp[i]) \o <<0>>

\* env_clear, then env("K", "1"): the child gets exactly K=1, whatever the
\* process environment holds.
EnvRoundTripWitness ==
    /\ bstate = "execd"
    /\ Len(bcalls) = 2
    /\ bcalls[1].call = "env_clear"
    /\ bcalls[2].call = "env" /\ bcalls[2].a = <<75>> /\ bcalls[2].b = <<49>>
    /\ Cardinality(osenv.vars) = 2
    /\ exec.envp = << <<75, 61, 49, 0>>, NullPtr >>

\* The number a string of decimal digits stands for.
RECURSIVE DecimalValue(_)
DecimalValue(d) ==
    IF d = <<>> THEN 0
    ELSE DecimalValue(SubSeq(d, 1, Len(d) - 1)) * 10 + (d[Len(d)] - 48)

\* d is the decimal representation of n
IsDecimalOf(d, n) ==
    /\ Len(d) >= 1
    /\ \A i \in 1..Len(d) : d[i] \in 48..57
    /\ Len(d) > 1 => d[1] # 48
    /\ DecimalValue(d) = n

\* The string at envp[i] is an entry for the name k.
EntryFor(i, k) ==
    LET c == Content(exec.envp[i])
    IN  Len(c) > Len(k) /\ SubSeq(c, 1, Len(k) + 1) = k \o <<61>>

\* C20: for every name k registered with env_var_with_pid, the environment
\* passed to execve has an entry k=<pid>, the pid in decimal being the one
\* getpid() returned in the child; unless env(k, ..) was called after the
\* registration it is the only entry for k, so no earlier value of k, set
\* or inherited, is passed on.
PidEnvPatched ==
    bstate = "execd" =>
        \A n \in 1..Len(bcalls) :
            bcalls[n].call = "env_var_with_pid" =>
                LET k == bcalls[n].a
                    entries == {i \in 1..(Len(exec.envp) - 1) : EntryFor(i, k)}
                    pidEntries ==
                        {i \in entries :
                            IsDecimalOf(SubSeq(Content(exec.envp[i]), Len(k) + 2,
                                               Len(Content(exec.envp[i]))), exec.pid)}
                    setLater == \E m \in (n + 1)..Len(bcalls) :
                                    bcalls[m].call = "env" /\ bcalls[m].a = k
                IN  /\ k \in builder.pid_env_vars
                    /\ pidEntries # {}
                    /\ ~setLater => Cardinality(entries) = 1

\* "K" inherited and set with env, then registered: the child, whose pid
\* has seven digits, gets only K=4194304.
PidEnvPatchedWitness ==
    /\ bstate = "execd"
    /\ Len(bcalls) = 2
    /\ bcalls[1].call = "env" /\ bcalls[1].a = <<75>>
    /\ bcalls[2].call = "env_var_with_pid" /\ bcalls[2].a = <<75>>
    /\ \E e \in bcalls[1].os.vars : e[1] = <<75>>
    /\ exec.pid = 4194304
    /\ Len(exec.envp) = 2
    /\ Content(exec.envp[1]) = <<75, 61, 52, 49, 57, 52, 51, 48, 52>>

\* The error spawn gives for a helper that did not exit with status 0.
HelperError(outcome) ==
    CASE outcome[1] = "Exited" -> ErrResult("AuxCommandExited", outcome[2])
      [] outcome[1] = "Signaled" -> ErrResult("AuxCommandKilled", outcome[2])
      [] OTHER -> ErrResult("SetIdMap", outcome[2])

\* C21: the id-map helpers run only with id maps and helper commands
\* configured, the uid helper first and the gid helper only after the uid
\* helper exited with status 0, both before the wake-up byte, which is
\* written only after both exited with 0; each gets the argv helper, child
\* pid, then inside, outside, count of every row in decimal; a helper that
\* exits non-zero, is killed, or cannot be run makes spawn return
\* AuxCommandExited(status), AuxCommandKilled(sig) or SetIdMap.
HelperProtocol ==
    /\ ~(cmd.id_maps /\ cmd.id_map_commands)
            => haux = <<>> /\ Range(plog) \cap {"helper_uid", "helper_gid"} = {}
    /\ Len(haux) <= 2
    /\ Len(haux) = Count(plog, "helper_uid") + Count(plog, "helper_gid")
    /\ \A i \in 1..Len(haux) :
            LET maps == IF i = 1 THEN UidMaps ELSE GidMaps
                a == haux[i].argv
            IN  /\ a[1] = IF i = 1 THEN "newuidmap" ELSE "newgidmap"
                /\ Len(a) = 2 + 3 * Len(maps)
                /\ IsDecimalOf(a[2], ChildPid)
                /\ \A j \in 1..Len(maps), f \in 1..3 :
                        IsDecimalOf(a[2 + 3 * (j - 1) + f], maps[j][f])
                /\ i < Len(haux) => haux[i].outcome = <<"Exited", 0>>
                /\ haux[i].outcome # <<"Exited", 0>>
                        => /\ perr = HelperError(haux[i].outcome)
                           /\ "wakeup_write" \notin Range(plog)
                           /\ Returned => result = HelperError(haux[i].outcome)
    /\ \A i, j \in 1..Len(plog) :
            (plog[i] \in {"helper_uid", "helper_gid"} /\ plog[j] = "wakeup_write") => i < j
    /\ ("wakeup_write" \in Range(plog) /\ cmd.id_maps /\ cmd.id_map_commands)
            => Len(haux) = 2

\* The uid helper exited with 0, the gid helper was killed by a signal, and
\* spawn returned AuxCommandKilled.
HelperProtocolWitness ==
    /\ Len(haux) = 2
    /\ haux[2].outcome[1] = "Signaled"
    /\ haux[1].argv = <<"newuidmap", <<51, 48, 55>>, <<48>>, <<49, 48, 48, 48>>, <<49>>,
                        <<49>>, <<49, 48, 48, 48, 48, 48>>, <<54, 53, 53, 51, 54>> >>
    /\ Returned
    /\ result.kind = "AuxCommandKilled"

\* C22: a spawn in one thread does not wait for the child of another
\* thread's spawn: once its own child has called execve or exited, its
\* error-pipe read returns; and once the parent has dropped its end of the
\* wake-up pipe, the child's wake-up read returns.
SpawnsIndependent ==
    \A t \in Threads :
        /\ (conc.tpc[t] = "err_read" /\ conc.kpc[t] \in {"execd", "exited"})
                => ErrReadReady(t)
        /\ (conc.kpc[t] = "wakeup" /\ <<t, "wakeup">> \notin conc.pfd)
                => WakeupReady(t)

\* C23: a frame written by fail_errno for an error code of ErrorCode and any
\* i32 errno, negative ones included, is decoded by after_start into the
\* error kind of that code carrying the same errno.
FrameRoundTrip ==
    wire.pc = "decoded" =>
        /\ Len(wire.bytes) = 5
        /\ wire.res = ErrResult(KindName[wire.code], wire.errno)

FrameRoundTripWitness ==
    /\ wire.pc = "decoded"
    /\ wire.code = CapSet
    /\ wire.errno = -16777217
    /\ wire.bytes = <<13, 254, 255, 255, 255>>

ReadOutcome ==
    wire.pc \in {"decoded", "returned Ok", "returned Err"} =>
        LET n == Len(wire.bytes)
            b == wire.bytes
        IN  /\ n = 0 => wire.res = OkResult
            /\ (n = 5 /\ b[1] \in 1..13) =>
                   wire.res = ErrResult(KindName[b[1]], DecodeErrno(b))
            /\ (n = 5 /\ b[1] \notin 1..13) => wire.res = ErrResult("UnknownError", 0)
            /\ n \notin {0, 5} => wire.res = ErrResult("UnknownError", 0)
            /\ wire.pc = "returned Ok" => n = 0
            /\ wire.pc = "returned Err" => n # 0

ReadOutcomeWitness ==
    /\ wire.pc = "returned Err"
    /\ wire.bytes = <<PreExec, 0, 0, 0, CreatePipe>>
    /\ wire.res = ErrResult("UnknownError", 0)

\* C26: a wake-up read that fails with an errno other than EINTR and EAGAIN
\* makes the child append the frame PipeError(errno) to the error pipe; on
\* EINTR and EAGAIN the child stays at the read and writes nothing.
WakeupReadFailureFramed ==
    [][cpc = "wakeup" =>
          /\ (cfail' # cfail) =>
                 /\ cfail'.code = PipeError
                 /\ cfail'.errno \notin {EINTR, EAGAIN}
                 /\ ebuf' = ebuf \o Frame(PipeError, cfail'.errno)
          /\ (cpc' = "wakeup" /\ child' = "running") => (ebuf' = ebuf /\ stray' = stray)]_vars

\* C27: with keep_caps, a failing prctl(PR_SET_KEEPCAPS), capset or ambient
\* raise ends the child with the frame CapSet; only a raise that fails with
\* ENOTSUP is no error, and it is the last raise of the loop.
CapFailuresReported ==
    /\ (cfail # NoFail /\ clog # <<>> /\ clog[Len(clog)] \in {"prctl_keepcaps", "capset"})
           => cfail.code = CapSet
    /\ \A i \in 1..Len(clog) :
        /\ clog[i] = "ambient_raise_failed" => (cfail.code = CapSet /\ i = Len(clog))
        /\ clog[i] = "ambient_raise_enotsup" =>
               (i = Len(clog) \/ clog[i + 1] \notin {"ambient_raise", "ambient_raise_failed",
                                                     "ambient_raise_enotsup"})

\* The place of a privilege call in child_after_clone.
PrivilegeRank ==
    [c \in {"prctl_keepcaps", "setgid", "setgroups", "setuid", "capset", "ambient_raise",
            "ambient_raise_failed", "ambient_raise_enotsup"} |->
        CASE c = "prctl_keepcaps" -> 1
          [] c = "setgid" -> 2
          [] c = "setgroups" -> 3
          [] c = "setuid" -> 4
          [] c = "capset" -> 5
          [] OTHER -> 6]

\* C28: the privilege calls of the child are made in the order
\* PR_SET_KEEPCAPS, setgid, setgroups, setuid, capset, ambient raises.
PrivilegeOrder ==
    \A i, j \in 1..Len(clog) :
        (i < j /\ clog[i] \in DOMAIN PrivilegeRank /\ clog[j] \in DOMAIN PrivilegeRank) =>
            /\ PrivilegeRank[clog[i]] <= PrivilegeRank[clog[j]]
            /\ PrivilegeRank[clog[i]] = PrivilegeRank[clog[j]] => PrivilegeRank[clog[i]] = 6

PrivilegeOrderWitness ==
    /\ child = "execd"
    /\ \E i \in 1..Len(clog) :
        /\ i + 5 <= Len(clog)
        /\ SubSeq(clog, i, i + 5) =
               <<"prctl_keepcaps", "setgid", "setgroups", "setuid", "capset", "ambient_raise">>

\* The calls of the id-map blocks of child_after_clone, in source order.
IdMapCalls ==
    <<"open_uid_map", "write_uid_map", "close_uid_map",
      "open_setgroups", "write_setgroups_deny", "close_setgroups",
      "open_gid_map", "write_gid_map", "close_gid_map">>

IdMapRank(c) == CHOOSE r \in 1..Len(IdMapCalls) : IdMapCalls[r] = c

\* C29: a child that writes its own id maps opens, writes and closes
\* uid_map, then /proc/self/setgroups ("deny"), then gid_map, after the
\* wake-up read and before any setgid, setgroups or setuid; the first of
\* these calls that fails ends the child with the frame SetIdMap.
IdMapOrder ==
    \A i \in 1..Len(clog) :
        clog[i] \in Range(IdMapCalls) =>
            LET r == IdMapRank(clog[i])
            IN  /\ r > 1 => (i > 1 /\ clog[i - 1] = IdMapCalls[r - 1])
                /\ \E k \in 1..(i - 1) : clog[k] \in {"wakeup_read", "wakeup_eof"}
                /\ \A k \in 1..(i - 1) : clog[k] \notin {"setgid", "setgroups", "setuid"}
                /\ (i = Len(clog) /\ cfail # NoFail) => cfail.code = SetIdMap
                /\ (i < Len(clog) /\ r < Len(IdMapCalls)) => clog[i + 1] = IdMapCalls[r + 1]
                /\ (i = Len(clog) /\ r \notin {3, Len(IdMapCalls)}) => cfail.code = SetIdMap

IdMapOrderWitness ==
    /\ child = "execd"
    /\ \E i \in 1..Len(clog) :
        /\ i + 9 <= Len(clog)
        /\ SubSeq(clog, i, i + 9) = <<"wakeup_read">> \o IdMapCalls
    /\ "setuid" \in Range(clog)

\* The place of a call of the blocks from setns to the close loop.
SetupRank ==
    [c \in {"setns", "pivot_root", "chdir_new_root", "umount2", "chroot", "chdir_chroot",
            "chdir_work_dir", "dup2", "clear_cloexec", "close_range"} |->
        CASE c = "setns" -> 1
          [] c = "pivot_root" -> 2
          [] c = "chdir_new_root" -> 3
          [] c = "umount2" -> 4
          [] c = "chroot" -> 5
          [] c = "chdir_chroot" -> 6
          [] c = "chdir_work_dir" -> 7
          [] c = "close_range" -> 9
          [] OTHER -> 8]

FailedCall(code) ==
    CASE code = SetNs -> {"setns"}
      [] code = ChangeRoot -> {"pivot_root", "chdir_new_root", "umount2", "chroot", "chdir_chroot"}
      [] code = Chdir -> {"chdir_work_dir"}
      [] code = StdioError -> {"dup2", "clear_cloexec"}
      [] OTHER -> {}

\* C30: the child calls setns, then pivot_root with its chdir and umount2,
\* then chroot with its chdir, then chdir to work_dir, then applies the
\* descriptor plan, then closes the ranges; the call that fails is the last
\* call of the child.
SetupOrder ==
    /\ \A i, j \in 1..Len(clog) :
        (i < j /\ clog[i] \in DOMAIN SetupRank /\ clog[j] \in DOMAIN SetupRank) =>
            /\ SetupRank[clog[i]] <= SetupRank[clog[j]]
            /\ SetupRank[clog[i]] = SetupRank[clog[j]] => SetupRank[clog[i]] = 8
    /\ cfail.code \in {SetNs, ChangeRoot, Chdir, StdioError} =>
            /\ clog # <<>>
            /\ clog[Len(clog)] \in FailedCall(cfail.code)
            /\ child \in {"zombie", "reaped"}

SetupOrderWitness ==
    /\ child = "execd"
    /\ \E i \in 1..Len(clog) :
        /\ i + 5 <= Len(clog)
        /\ SubSeq(clog, i, i + 5) =
               <<"setns", "pivot_root", "chdir_new_root", "chroot", "chdir_chroot", "chdir_work_dir">>
    /\ "dup2" \in Range(clog)
    /\ clog[Len(clog) - 3] = "close_range"

\* C31: when after_start fails before it writes the wake-up byte, the child
\* makes no call that follows the wake-up loop and never reaches execve,
\* with death_sig set or unset.
ParentFailureKeepsChildBlocked ==
    (perr # NoResult /\ "wakeup_write" \notin Range(plog))
        => (PostWakeupCalls = {} /\ child # "execd")

\* The sources of the plan that prepare_descriptors created itself.
CreatedSources ==
    {e[2] : e \in {x \in plan.inner :
                     \/ IntentOf(cmd.fds, x[1])[1] \in {"ReadPipe", "WritePipe", "ReadNull", "WriteNull"}
                     \/ x[2] \notin {x[1], IntentOf(cmd.fds, x[1])[2]}}}

\* C32: every descriptor the planner created (child ends of pipes,
\* /dev/null descriptors, duplicates made to avoid a target) stays open in
\* the parent until spawn returns, that is until after the wake-up write and
\* the return of the error-pipe read when the handshake takes place.
GuardsHeld ==
    /\ CreatedSources \subseteq plan.guards
    /\ ~Returned => \A g \in plan.guards : pfds[g] # NoFile
    /\ (Returned /\ result = OkResult)
            => {"wakeup_write", "errpipe_read"} \subseteq Range(plog)

GuardsHeldWitness ==
    /\ ppc = "err_read"
    /\ child = "execd"
    /\ plan.guards \ {e[2] : e \in plan.inner} # {}
    /\ Cardinality(CreatedSources) = 2
    /\ \A g \in plan.guards : pfds[g] # NoFile

\* C33: whichever way spawn returns, every descriptor it created is closed
\* in the parent, each by its one owner (a pipe local, a guard or a holder),
\* except the holders of a successful spawn, which the Child owns; the
\* descriptors that were open before the call, those the caller put into the
\* Command included, are as they were.
SpawnClosesItsDescriptors ==
    LET before == OpenTable(cmd.nopen)
        owned == <<PipeFds(pipes), plan.guards, HolderFds(plan.outer)>>
    IN  /\ \A i, j \in 1..3 : i # j => owned[i] \cap owned[j] = {}
        /\ \A i \in 1..3 : \A f \in owned[i] : before[f] = NoFile
        /\ \A f \in FDS : (before[f] = NoFile /\ pfds[f] # NoFile)
                            => \E i \in 1..3 : f \in owned[i]
        /\ Returned =>
              \A f \in FDS :
                  IF before[f] # NoFile THEN pfds[f] = before[f]
                  ELSE IF result = OkResult /\ f \in HolderFds(plan.outer)
                  THEN pfds[f] # NoFile
                  ELSE pfds[f] = NoFile

SpawnClosesItsDescriptorsWitness ==
    /\ Returned
    /\ result.tag = "Err"
    /\ child = "reaped"
    /\ cmd.nopen = 2
    /\ HolderFds(plan.outer) # {}
    /\ Cardinality(plan.guards) >= 2
    /\ \A f \in PipeFds(pipes) \cup plan.guards \cup HolderFds(plan.outer) : pfds[f] = NoFile

\* C34: for a pid from 0 up to the largest i32, format_pid_fixed on a buffer
\* of MAX_PID_LEN + 1 bytes returns the decimal digits of the pid, without
\* leading zeros ("0" for 0), followed by one NUL, which is what
\* format!("{}", pid) gives; the unreachable branch is not taken.
FormatPidDecimal ==
    fmt.pc = "returned" =>
        LET n == Len(fmt.out)
        IN  /\ fmt.out # Unreachable
            /\ n >= 2 /\ n <= MAX_PID_LEN + 1
            /\ fmt.out[n] = 0
            /\ IsDecimalOf(SubSeq(fmt.out, 1, n - 1), fmt.pid)
            /\ fmt.out = Display(fmt.pid) \o <<0>>

FormatPidDecimalWitness ==
    /\ fmt.pc = "returned"
    /\ fmt.pid = 2147483647
    /\ fmt.out = <<50, 49, 52, 55, 52, 56, 51, 54, 52, 55, 0>>

\* The components of dir after those of rel, under "/".
SuffixUnder(dir, rel) == <<"/">> \o SubSeq(dir, Len(rel) + 1, Len(dir))

\* C35: for the stored pivot, old_inside is "/" with the components of
\* put_old after new_root; the workdir of a current directory under new_root
\* is "/" with its components after new_root, and "/" for any other current
\* directory; relative_to(dir, rel) is None whenever rel is no
\* component-wise prefix of dir.
PathResolver ==
    (bstate = "spawned" /\ builder.pivot_root # NoPivot) =>
        LET new == builder.pivot_root[1]
            old == builder.pivot_root[2]
        IN  /\ exec.old_inside = SuffixUnder(old, new)
            /\ \A cur \in Paths :
                LET r == relative_to(cur, new)
                    workdir == IF r = <<>> THEN <<"/">> ELSE r
                IN  /\ workdir = IF IsPrefix(new, cur) THEN SuffixUnder(cur, new) ELSE <<"/">>
                    /\ ~IsPrefix(new, cur) => r = <<>>

\* C36: from the relocation of the error pipe to the end of the descriptor
\* plan, the child's epipe is a descriptor from 3 up that still is the write
\* end of the error pipe: no dup2 of the plan has it as its target.
ErrorPipeNotOverwritten ==
    (child = "running" /\ cpc \in {"fds", "close_fds"})
        => (epipe >= 3 /\ cfds[epipe] = ErrW)

\* How often the map file `which` of the child has been written, by all of
\* the helper command, the parent and the child.
MapWrites(which) ==
    Count(plog, "helper_" \o which) + Count(plog, "write_proc_" \o which \o "_map")
        + Count(clog, "write_" \o which \o "_map")

\* C37: in one spawn the uid_map and the gid_map of the child are each
\* written at most once, by one of the helper command, the parent and the
\* child; with helper commands neither the parent nor the child writes them.
IdMapsWrittenOnce ==
    \A which \in {"uid", "gid"} :
        /\ MapWrites(which) <= 1
        /\ cmd.id_map_commands =>
               /\ Count(plog, "write_proc_" \o which \o "_map") = 0
               /\ Count(clog, "write_" \o which \o "_map") = 0

\* C38: a take_pipe_reader or take_pipe_writer call that returns None leaves
\* the holders of the Child as they were, a holder of the other kind
\* included.
TakeNoneKeepsHolders ==
    [][(Len(hcalls') = Len(hcalls) + 1
          /\ hcalls'[Len(hcalls')].call \in {"take_pipe_reader", "take_pipe_writer"}
          /\ hcalls'[Len(hcalls')].tag = "None")
        => handle'.fds = handle.fds]_vars

\* ExitStatus::success: self == &ExitStatus::Exited(0)
success(status) == status = <<"Exited", 0>>

\* ExitStatus::code: Some(e as i32) for Exited(e), None for Signaled
code(status) == IF status[1] = "Exited" THEN <<"Some", status[2]>> ELSE <<"None", 0>>

\* C39: when the process exited normally with exit code c, every wait that
\* returns Ok returns a status whose code() is Some(c) and whose success()
\* is true exactly when c = 0.
ExitCodeReturned ==
    \A i \in CallsOf({"wait"}) :
        (hcalls[i].tag = "Ok" /\ proc.status[1] = "Exited")
            => /\ code(hcalls[i].status) = <<"Some", proc.status[2]>>
               /\ success(hcalls[i].status) <=> proc.status[2] = 0

\* C40: after any sequence of env, env_remove, env_clear and
\* env_var_with_pid calls no name is both in pid_env_vars and a key of the
\* environment map, and the environment passed to execve has at most one
\* entry for a name.
PidVarsDisjoint ==
    /\ builder.pid_env_vars \cap {e[1] : e \in builder.environ.map} = {}
    /\ bstate \in {"spawned", "execd"} =>
        \A k \in EnvKeys :
            Cardinality({i \in 1..(Len(exec.envp) - 1) : EntryFor(i, k)}) <= 1

Spec == InitWith(GeneralCommands) /\ [][Next]_vars

SpecFds == InitWith(DescriptorCommands) /\ [][Next]_vars

====
